---- MODULE Spec2Model ----
(***************************************************************************)
(* Ping connectivity checker: the bounded-concurrency probe run            *)
(* (ping_checker.main, PingDaemon.ping_job), the log classifier            *)
(* (analyze_logs.categorize_ips) and the cron job scheduler of the daemon  *)
(* (PingDaemon with APScheduler's BlockingScheduler).                      *)
(*                                                                         *)
(* The specifications share the variables; each drives one part and        *)
(* leaves the other parts in their initial state:                          *)
(*   SpecRun       one probe run over a host list                          *)
(*   FairSpecRun   SpecRun with the fairness the thread pool provides      *)
(*   SpecClassify  categorize_ips called twice on the same tallies         *)
(*   SpecSched     the daemon's scheduler and its jobs                     *)
(*   SpecDaemon    the daemon process from loading to shutdown             *)
(*   FairSpecDaemon  SpecDaemon with the main thread's own progress        *)
(*   SpecRunAnyParams  one probe run with unvalidated parameters           *)
(*   SpecCron      a job's cron trigger over the days of a month           *)
(*   SpecSink      two runs appending to the same log file                 *)
(*   SpecReport    the sometimes-responded report of analyze_logs          *)
(*   FairSpecJobs  SpecDaemon with fair triggers and ends of job runs      *)
(*   SpecJobRuns   the runs of two jobs on their host files                *)
(*   SpecJobSource the runs of one job whose host file is edited           *)
(*   SpecLogDir    runs appending to a log directory, then parse_log_files *)
(*   SpecReader    read_ip_list on the text of a host file                 *)
(*   SpecDbRun     the one-shot run on the database source                 *)
(*   SpecSignals   the daemon with stop signals at any instruction         *)
(*   FairSpecSignals  SpecSignals with main-thread progress and run ends   *)
(***************************************************************************)
EXTENDS FiniteSets, Integers, Sequences, TLC

VARIABLES
    \* ---- one probe run -------------------------------------------------
    mode,           \* "main" (one-shot command) or "daemon" (ping_job)
    H,              \* the host lines of the source, duplicates included
    ip_list,        \* the host list of the run (read_ip_list's result)
    workers,        \* max_workers of the run's ThreadPoolExecutor
    timeout,        \* ping timeout in seconds
    pc,             \* position of the run
    pstate,         \* per probe: "queued", "running", "resolved", "harvested"
    elapsed,        \* per probe: seconds its primitive call has been running
    prim,           \* per probe: what the primitive did ("none" while unknown)
    future,         \* per probe: <<>> or <<result of ping_host>>
    all_results,    \* main's all_results list
    success_log,    \* lines of the run's *_successful.txt
    failure_log,    \* lines of the run's *_failed.txt
    successful,     \* counter of the run
    failed,         \* counter of the run
    exit_code,      \* <<>> while the process has not exited, else <<code>>
    \* ---- the classifier ------------------------------------------------
    success_counts, \* dict ip -> count
    failure_counts, \* dict ip -> count
    cpc,            \* position of the classifier: "idle", "loop", "returned"
    todo,           \* the ips of all_ips the for loop has not visited yet
    never_responded,
    always_responded,
    sometimes_responded,
    calls,          \* number of categorize_ips calls started
    first_sets,     \* <<>> or <<the three sets the first call returned>>
    \* ---- the scheduler --------------------------------------------------
    jobs,           \* the jobs add_jobs_from_config added
    instances,      \* per job: its runs submitted to the executor and not
                    \* ended (the executor's _instances counter)
    running,        \* per job: its runs that execute ping_job on a thread
    lastEvent,      \* the kind of the last record in the daemon's log
    \* ---- the daemon process --------------------------------------------
    count,          \* ping packet count of the run (with timeout, workers)
    config,         \* the sections of the configuration file, in order
    next_section,   \* index of the section add_jobs_from_config handles next
    job_count,      \* add_jobs_from_config's counter of added jobs
    skipped,        \* the sections an error was logged for
    self_running,   \* PingDaemon.running
    dpc,            \* position of the daemon process
    daemon_exit,    \* <<>> while the daemon has not exited, else <<code>>
    last_run,       \* how the last ended job run ended
    \* ---- a job's cron trigger ------------------------------------------
    schedule,       \* the day and day_of_week fields of the job's schedule
    clock,          \* the current day of the calendar (0 before the first)
    fired,          \* whether the trigger fired on the current day
    \* ---- the flat-file sink shared by two runs --------------------------
    sink_file,      \* the chunks the operating system appended to the file
    wstate,         \* per run: position inside log_result
    wtodo,          \* per run: the results it has still to log
    \* ---- the analysis report --------------------------------------------
    report,         \* the rows of analysis_sometimes_responded.txt
    \* ---- the runs of the daemon's jobs and their host files -------------
    source,         \* per job: "missing", "unreadable" or the file's lines
    rpos,           \* per job: position of its run of ping_job
    run_hosts,      \* per job: the hosts its last started run read
    prev_hosts,     \* per job: the hosts its run before that one read
    probed,         \* per job: the hosts its last started run has probed
    written,        \* per job: result lines its last started run has logged
    \* ---- the log directory and its analysis -----------------------------
    log_dir,        \* the log files: name -> text (a sequence of characters)
    log_stamp,      \* timestamp of the run that is logging (0: no run)
    logged,         \* the results log_result was called with, in order
    parsed,         \* <<>> or <<success_counts, failure_counts>> as returned
                    \* by parse_log_files
    \* ---- the host file as text ------------------------------------------
    file_text,      \* the text of the host file
    ips_read,       \* <<>> or <<the hosts read_ip_list returned>>
    \* ---- the one-shot run on the database source ------------------------
    rows,           \* the rows the query returned
    ip_data,        \* what get_ips_from_database returned: None, or a list
    db_pc,          \* position of the run
    db_list,        \* main's ip_list
    db_results,     \* main's all_results
    \* ---- stop signals and the invocations of shutdown --------------------
    frames,         \* the invocations of shutdown on the main thread that
                    \* have not returned, outermost first: their positions
    sigs,           \* number of stop signals delivered to the process
    sched_stops     \* number of scheduler.shutdown calls that returned

runVars == << mode, H, ip_list, workers, timeout, pc, pstate, elapsed, prim,
              future, all_results, success_log, failure_log, successful,
              failed, exit_code >>
classVars == << success_counts, failure_counts, cpc, todo, never_responded,
                always_responded, sometimes_responded, calls, first_sets >>
schedVars == << jobs, instances, running, lastEvent >>
daemonVars == << config, next_section, job_count, skipped, self_running, dpc,
                 daemon_exit, last_run >>
cronVars == << schedule, clock, fired >>
sinkVars == << sink_file, wstate, wtodo >>
jobrunVars == << source, rpos, run_hosts, prev_hosts, probed, written >>
logdirVars == << log_dir, log_stamp, logged, parsed >>
readerVars == << file_text, ips_read >>
dbVars == << rows, ip_data, db_pc, db_list, db_results >>
sigVars == << frames, sigs, sched_stops >>
laterVars == << logdirVars, readerVars, dbVars, sigVars >>
moreVars == << jobrunVars, laterVars >>
extVars == << count, moreVars, daemonVars, cronVars, sinkVars, report >>
vars == << runVars, classVars, schedVars, extVars >>

(***************************************************************************)
(* Bounds of the model.                                                    *)
(***************************************************************************)
MaxLen == 3
MaxWorkers == 2
MaxTimeout == 1
MaxCount == 3
ExtraJobs == 1

Hosts == {"h1", "h2", "h3"}

(***************************************************************************)
(* Program constants.                                                      *)
(***************************************************************************)
\* subprocess.run(..., timeout=timeout+2)
Grace == 2
\* BlockingScheduler() is built without executors: the scheduler's default
\* executor is a thread pool of 10 threads.
PoolSize == 10
\* add_job is called without max_instances: the scheduler's default is 1.
MaxInstances == 1

(***************************************************************************)
(* Helpers.                                                                *)
(***************************************************************************)
Range(s) == { s[i] : i \in 1..Len(s) }

SeqsUpTo(S, n) == UNION { [1..k -> S] : k \in 0..n }

\* The host lists the runs are tried on: every list of at most n lines, up
\* to a renaming of the hosts and to the order of the lines (the hosts in
\* use are h1, or h1 and h2, ..., and equal lines are adjacent); the code
\* never looks into a host name, and it collects the lines in a set.
HostOrder == << "h1", "h2", "h3" >>

Rank(h) == CHOOSE k \in 1..Len(HostOrder) : HostOrder[k] = h

Canonical(s) ==
    /\ \A i \in 1..Len(s) : i = 1 \/ Rank(s[i]) \in {Rank(s[i-1]), Rank(s[i-1]) + 1}
    /\ Len(s) > 0 => s[1] = HostOrder[1]

HostLists(n) == { s \in SeqsUpTo(Hosts, n) : Canonical(s) }

(***************************************************************************)
(* The probe of one host.                                                  *)
(***************************************************************************)
\* What one call of the ping primitive can do.
PrimReturns == {"rc0_time", "rc0_notime", "rc_nonzero"}

\* The outer deadline of one probe: subprocess.run(..., timeout=timeout+2).
Deadline(t) == t + Grace

\* ping_host without its `except Exception` clause.
ping_host_no_except(ip, outcome) ==
    CASE outcome = "rc0_time"   -> [ip |-> ip, success |-> TRUE,  info |-> "time_ms",     raised |-> FALSE]
      [] outcome = "rc0_notime" -> [ip |-> ip, success |-> TRUE,  info |-> "N/A",         raised |-> FALSE]
      [] outcome = "rc_nonzero" -> [ip |-> ip, success |-> FALSE, info |-> "No response", raised |-> FALSE]
      [] outcome = "expired"    -> [ip |-> ip, success |-> FALSE, info |-> "Timeout",     raised |-> FALSE]
      [] outcome = "raised"     -> [ip |-> ip, success |-> FALSE, info |-> "Error",       raised |-> TRUE]

\* ping_host: the tuple it returns for each behaviour of the primitive.
\* `raised` says the call ended with an exception instead of a tuple.
ping_host(ip, outcome) ==
    CASE outcome = "rc0_time"   -> [ip |-> ip, success |-> TRUE,  info |-> "time_ms",     raised |-> FALSE]
      [] outcome = "rc0_notime" -> [ip |-> ip, success |-> TRUE,  info |-> "N/A",         raised |-> FALSE]
      [] outcome = "rc_nonzero" -> [ip |-> ip, success |-> FALSE, info |-> "No response", raised |-> FALSE]
      [] outcome = "expired"    -> [ip |-> ip, success |-> FALSE, info |-> "Timeout",     raised |-> FALSE]
      [] outcome = "raised"     -> [ip |-> ip, success |-> FALSE, info |-> "Error",       raised |-> FALSE]

\* The distinct elements of a list, each once, in first-seen order.
RECURSIVE Dedup(_)
Dedup(s) ==
    IF s = << >> THEN << >>
    ELSE LET d == Dedup(SubSeq(s, 1, Len(s) - 1))
         IN  IF s[Len(s)] \in Range(d) THEN d ELSE Append(d, s[Len(s)])

\* read_ip_list collecting the lines in a list instead of a set.
read_ip_list_no_set(lines) == lines

\* read_ip_list: the lines are collected in a set and returned as a list.
\* (The order of that list is arbitrary; the pool below starts the probes in
\* any order.)
read_ip_list(lines) == Dedup(lines)

\* log_result: the line written for one result.
log_line(r) == << r.ip, IF r.success THEN "SUCCESS" ELSE "FAILED", r.info >>

\* The probes of the run, by their position in ip_list.
Tasks == DOMAIN pstate
Running == { i \in Tasks : pstate[i] = "running" }
Queued == { i \in Tasks : pstate[i] = "queued" }
Resolved == { i \in Tasks : pstate[i] = "resolved" }
Harvested == { i \in Tasks : pstate[i] = "harvested" }

\* A pool that starts a thread for every submitted probe.
pool_unbounded == TRUE

\* A worker thread of ThreadPoolExecutor(max_workers=workers) is free.
pool_has_free_worker == Cardinality(Running) < workers

\* subprocess.run without its timeout argument.
no_outer_deadline(i) == FALSE

\* The primitive call of probe i has run for timeout+2 seconds.
outer_deadline_reached(i) == elapsed[i] = Deadline(timeout)

\* An exit code that ignores the failed counter.
main_exit_code_zero(f) == 0

\* sys.exit(1 if failed > 0 else 0)
main_exit_code(f) == IF f > 0 THEN 1 ELSE 0

(***************************************************************************)
(* Actions of one run.                                                     *)
(***************************************************************************)
\* The host list is read; an empty list ends the run before any probe.
\* Otherwise every host of the list is submitted to the pool.
StartRun ==
    /\ pc = "start"
    /\ ip_list' = read_ip_list(H)
    /\ IF ip_list' = << >>
       THEN /\ pc' = "exited"
            /\ exit_code' = IF mode = "main" THEN << 1 >> ELSE << >>
            /\ UNCHANGED << pstate, elapsed, prim, future >>
       ELSE IF workers <= 0
       THEN \* ThreadPoolExecutor(max_workers=...) raises ValueError
            /\ pc' = IF mode = "main" THEN "crashed" ELSE "aborted"
            /\ exit_code' = IF mode = "main" THEN << 1 >> ELSE << >>
            /\ UNCHANGED << pstate, elapsed, prim, future >>
       ELSE /\ pc' = "probing"
            /\ pstate' = [i \in 1..Len(ip_list') |-> "queued"]
            /\ elapsed' = [i \in 1..Len(ip_list') |-> 0]
            /\ prim' = [i \in 1..Len(ip_list') |-> "none"]
            /\ future' = [i \in 1..Len(ip_list') |-> << >>]
            /\ UNCHANGED exit_code
    /\ UNCHANGED << mode, H, workers, timeout,
                    all_results, success_log, failure_log, successful, failed >>
    /\ UNCHANGED << classVars, schedVars, extVars >>

\* A pool worker takes a queued probe and calls the primitive.
StartProbe(i) ==
    /\ pc \in {"probing", "unwinding"}
    /\ i \in Queued
    /\ pool_has_free_worker
    /\ pstate' = [pstate EXCEPT ![i] = "running"]
    /\ UNCHANGED << mode, H, ip_list, workers, timeout, pc, elapsed, prim,
                    future, all_results, success_log, failure_log, successful,
                    failed, exit_code >>
    /\ UNCHANGED << classVars, schedVars, extVars >>

\* One second passes for a running primitive call.
Tick(i) ==
    /\ i \in Running
    /\ elapsed[i] < Deadline(timeout)
    /\ elapsed' = [elapsed EXCEPT ![i] = @ + 1]
    /\ UNCHANGED << mode, H, ip_list, workers, timeout, pc, pstate, prim,
                    future, all_results, success_log, failure_log, successful,
                    failed, exit_code >>
    /\ UNCHANGED << classVars, schedVars, extVars >>

\* ping_host returns (or raises) and the future is resolved.
Resolve(i, outcome) ==
    /\ pstate' = [pstate EXCEPT ![i] = "resolved"]
    /\ prim' = [prim EXCEPT ![i] = outcome]
    /\ future' = [future EXCEPT ![i] = << ping_host(ip_list[i], outcome) >>]
    /\ elapsed' = [elapsed EXCEPT ![i] = 0]
    /\ UNCHANGED << mode, H, ip_list, workers, timeout, pc,
                    all_results, success_log, failure_log, successful, failed,
                    exit_code >>
    /\ UNCHANGED << classVars, schedVars, extVars >>

\* The primitive exits before the outer deadline.
PrimitiveReturns(i, outcome) ==
    /\ i \in Running
    /\ elapsed[i] < Deadline(timeout)
    /\ outcome \in PrimReturns
    /\ Resolve(i, outcome)

\* An exception other than TimeoutExpired is raised inside ping_host's try
\* block: invoking the primitive fails (ping missing, bad argument, ...) or
\* its output cannot be split.
PrimitiveRaises(i) ==
    /\ i \in Running
    /\ elapsed[i] < Deadline(timeout)
    /\ Resolve(i, "raised")

\* A deadline of the whole batch: the expiry of one probe ends every probe
\* in flight as a timeout.
DeadlineExpiresBatch(i) ==
    /\ i \in Running
    /\ outer_deadline_reached(i)
    /\ pstate' = [k \in Tasks |-> IF k \in Running THEN "resolved" ELSE pstate[k]]
    /\ prim' = [prim EXCEPT ![i] = "expired"]
    /\ future' = [k \in Tasks |->
                    IF k \in Running THEN << ping_host(ip_list[k], "expired") >>
                    ELSE future[k]]
    /\ elapsed' = [k \in Tasks |-> IF k \in Running THEN 0 ELSE elapsed[k]]
    /\ UNCHANGED << mode, H, ip_list, workers, timeout, pc,
                    all_results, success_log, failure_log, successful, failed,
                    exit_code >>
    /\ UNCHANGED << classVars, schedVars, extVars >>

\* The primitive is still running at the outer deadline: TimeoutExpired.
DeadlineExpires(i) ==
    /\ i \in Running
    /\ outer_deadline_reached(i)
    /\ Resolve(i, "expired")

\* A loop over the futures in the order of their submission.
future_ready_in_input_order(i) ==
    /\ i \in Resolved
    /\ \A k \in Tasks : k < i => k \in Harvested

\* as_completed hands the loop any future that is done and not yet handled.
future_ready(i) == i \in Resolved

\* The run's thread handles one completed future: future.result(), the
\* all_results list (main only), log_result, the counters.
Harvest(i) ==
    /\ pc = "probing"
    /\ future_ready(i)
    /\ pstate' = [pstate EXCEPT ![i] = "harvested"]
    /\ LET r == future[i][1] IN
       IF r.raised
       THEN \* future.result() re-raises: the loop is left
            /\ pc' = "unwinding"
            /\ UNCHANGED << all_results, success_log, failure_log,
                            successful, failed >>
       ELSE /\ pc' = pc
            /\ all_results' = IF mode = "main" THEN Append(all_results, r)
                              ELSE all_results
            /\ success_log' = IF r.success THEN Append(success_log, log_line(r))
                              ELSE success_log
            /\ failure_log' = IF r.success THEN failure_log
                              ELSE Append(failure_log, log_line(r))
            /\ successful' = IF r.success THEN successful + 1 ELSE successful
            /\ failed' = IF r.success THEN failed ELSE failed + 1
    /\ UNCHANGED << mode, H, ip_list, workers, timeout, elapsed, prim, future,
                    exit_code >>
    /\ UNCHANGED << classVars, schedVars, extVars >>

\* log_result raises while handling a completed future (the log file cannot
\* be opened or written): the line is not written and the loop is left.
HarvestLogFails(i) ==
    /\ pc = "probing"
    /\ future_ready(i)
    /\ ~ future[i][1].raised
    /\ pc' = "unwinding"
    /\ pstate' = [pstate EXCEPT ![i] = "harvested"]
    /\ all_results' = IF mode = "main" THEN Append(all_results, future[i][1])
                      ELSE all_results
    /\ UNCHANGED << mode, H, ip_list, workers, timeout, elapsed, prim, future,
                    success_log, failure_log, successful, failed, exit_code >>
    /\ UNCHANGED << classVars, schedVars, extVars >>

\* Every future was handled: the with block ends, main exits with its code,
\* ping_job logs its summary and returns.
FinishRun ==
    /\ pc = "probing"
    /\ Tasks = Harvested
    /\ pc' = "done"
    /\ exit_code' = IF mode = "main" THEN << main_exit_code(failed) >>
                    ELSE << >>
    /\ UNCHANGED << mode, H, ip_list, workers, timeout, pstate, elapsed, prim,
                    future, all_results, success_log, failure_log, successful,
                    failed >>
    /\ UNCHANGED << classVars, schedVars, extVars >>

\* An exception left the loop: the with block waits for every submitted
\* probe (shutdown(wait=True)); then main dies with the traceback (exit
\* status 1) and ping_job logs the error and returns.
FinishUnwind ==
    /\ pc = "unwinding"
    /\ Tasks = Resolved \cup Harvested
    /\ pc' = IF mode = "main" THEN "crashed" ELSE "aborted"
    /\ exit_code' = IF mode = "main" THEN << 1 >> ELSE << >>
    /\ UNCHANGED << mode, H, ip_list, workers, timeout, pstate, elapsed, prim,
                    future, all_results, success_log, failure_log, successful,
                    failed >>
    /\ UNCHANGED << classVars, schedVars, extVars >>

(***************************************************************************)
(* Initial states of the three parts.                                      *)
(***************************************************************************)
RunIdle ==
    /\ mode = "main"
    /\ H = << >>
    /\ ip_list = << >>
    /\ workers = 1
    /\ timeout = 1
    /\ pc = "off"
    /\ pstate = << >>
    /\ elapsed = << >>
    /\ prim = << >>
    /\ future = << >>
    /\ all_results = << >>
    /\ success_log = << >>
    /\ failure_log = << >>
    /\ successful = 0
    /\ failed = 0
    /\ exit_code = << >>

ClassIdle ==
    /\ success_counts = << >>
    /\ failure_counts = << >>
    /\ cpc = "off"
    /\ todo = {}
    /\ never_responded = {}
    /\ always_responded = {}
    /\ sometimes_responded = {}
    /\ calls = 0
    /\ first_sets = << >>

SchedIdle ==
    /\ jobs = {}
    /\ instances = << >>
    /\ running = << >>
    /\ lastEvent = "none"

DaemonIdle ==
    /\ config = << >>
    /\ next_section = 1
    /\ job_count = 0
    /\ skipped = {}
    /\ self_running = FALSE
    /\ dpc = "off"
    /\ daemon_exit = << >>
    /\ last_run = "none"

CronIdle ==
    /\ schedule = << >>
    /\ clock = 0
    /\ fired = FALSE

SinkIdle ==
    /\ sink_file = << >>
    /\ wstate = << >>
    /\ wtodo = << >>

\* The packet count of a run unless a specification chooses it.
DEFAULT_PING_COUNT == 1

ParamIdle == count = DEFAULT_PING_COUNT

JobRunIdle ==
    /\ source = << >>
    /\ rpos = << >>
    /\ run_hosts = << >>
    /\ prev_hosts = << >>
    /\ probed = << >>
    /\ written = << >>

LogDirIdle ==
    /\ log_dir = << >>
    /\ log_stamp = 0
    /\ logged = << >>
    /\ parsed = << >>

ReaderIdle ==
    /\ file_text = << >>
    /\ ips_read = << >>

DbIdle ==
    /\ rows = << >>
    /\ ip_data = [none |-> TRUE, list |-> << >>]
    /\ db_pc = "idle"
    /\ db_list = << >>
    /\ db_results = << >>

SigIdle ==
    /\ frames = << >>
    /\ sigs = 0
    /\ sched_stops = 0

LaterIdle ==
    /\ LogDirIdle
    /\ ReaderIdle
    /\ DbIdle
    /\ SigIdle

MoreIdle ==
    /\ JobRunIdle
    /\ LaterIdle

ExtIdle ==
    /\ DaemonIdle
    /\ CronIdle
    /\ SinkIdle
    /\ report = << >>
    /\ MoreIdle

InitRun ==
    /\ mode \in {"main", "daemon"}
    /\ H \in HostLists(MaxLen)
    /\ ip_list = << >>
    /\ workers \in 1..MaxWorkers
    /\ timeout \in 1..MaxTimeout
    /\ pc = "start"
    /\ pstate = << >>
    /\ elapsed = << >>
    /\ prim = << >>
    /\ future = << >>
    /\ all_results = << >>
    /\ success_log = << >>
    /\ failure_log = << >>
    /\ successful = 0
    /\ failed = 0
    /\ exit_code = << >>
    /\ ClassIdle
    /\ SchedIdle
    /\ ParamIdle
    /\ ExtIdle

NextRun ==
    \/ StartRun
    \/ \E i \in Tasks : StartProbe(i)
    \/ \E i \in Tasks : Tick(i)
    \/ \E i \in Tasks, o \in PrimReturns : PrimitiveReturns(i, o)
    \/ \E i \in Tasks : PrimitiveRaises(i)
    \/ \E i \in Tasks : DeadlineExpires(i)
    \/ \E i \in Tasks : Harvest(i)
    \/ \E i \in Tasks : HarvestLogFails(i)
    \/ FinishRun
    \/ FinishUnwind

SpecRun == InitRun /\ [][NextRun]_vars

\* The steps of a run that the program takes by itself: every one but the
\* primitive's own return or failure.
RunProgress ==
    \/ StartRun
    \/ \E i \in Tasks : StartProbe(i)
    \/ \E i \in Tasks : Tick(i)
    \/ \E i \in Tasks : DeadlineExpires(i)
    \/ \E i \in Tasks : Harvest(i)
    \/ FinishRun
    \/ FinishUnwind

\* The fairness of a run: threads that can run do run, time passes for a
\* running primitive call, and subprocess.run raises TimeoutExpired at its
\* deadline.  Nothing forces the primitive itself to return.
FairRun == WF_vars(RunProgress)

FairSpecRun == InitRun /\ [][NextRun]_vars /\ FairRun

(***************************************************************************)
(* Properties of a run.                                                    *)
(***************************************************************************)
\* The lines of both log files of the run.
LoggedLines == success_log \o failure_log

CountOf(s, h) == Cardinality({ k \in 1..Len(s) : s[k][1] = h })

CountIp(s, h) == Cardinality({ k \in 1..Len(s) : s[k].ip = h })

RunEnded == pc \in {"done", "crashed", "aborted"}

\* C1: a run that starts probing produces exactly |dedup(H)| results, one
\* per distinct host of H, whatever each probe's outcome: no host ever has
\* two probes, two results or two log lines; when the run has ended every
\* distinct host has exactly one resolved future; and when it completed,
\* exactly one line was logged per distinct host (and, in main, all_results
\* holds exactly one result per distinct host).
C1_OneResultPerDistinctHost ==
    /\ \A h \in Hosts :
        /\ Cardinality({ i \in Tasks : ip_list[i] = h }) <= 1
        /\ CountOf(LoggedLines, h) <= 1
        /\ CountIp(all_results, h) <= 1
        /\ h \notin Range(H) => CountOf(LoggedLines, h) = 0
    /\ RunEnded =>
        /\ Len(ip_list) = Cardinality(Range(H))
        /\ \A h \in Range(H) :
             \E i \in Tasks : ip_list[i] = h /\ Len(future[i]) = 1
                              /\ future[i][1].ip = h
    /\ pc = "done" =>
        /\ Len(LoggedLines) = Cardinality(Range(H))
        /\ successful + failed = Cardinality(Range(H))
        /\ \A h \in Range(H) : CountOf(LoggedLines, h) = 1
        /\ mode = "main" =>
             /\ Len(all_results) = Cardinality(Range(H))
             /\ \A h \in Range(H) : CountIp(all_results, h) = 1

\* A completed run over a list with a repeated host and probes of every
\* kind of outcome among its results.
C1_Witness ==
    /\ pc = "done"
    /\ Len(H) > Cardinality(Range(H))
    /\ Cardinality(Range(H)) >= 2
    /\ Len(LoggedLines) = Cardinality(Range(H))
    /\ \E i \in Tasks : prim[i] \in {"expired", "raised", "rc_nonzero"}
    /\ \E i \in Tasks : prim[i] \in {"rc0_time", "rc0_notime"}

\* C2: at most `workers` probes are in flight at any time.
C2_InFlightBounded == Cardinality(Running) <= workers

\* The pool is saturated with two probes in flight and a third one waiting.
C2_Witness ==
    /\ workers >= 2
    /\ Cardinality(Running) = workers
    /\ Queued # {}

\* C5: a probe that fails (non-zero exit, timeout, exception while invoking
\* the primitive) resolves its future with a tuple for that host with
\* success = False and the matching diagnostic; ping_host never raises, and
\* the run never leaves its loop because of a probe.
C5_ProbeFailureBecomesResult ==
    \A i \in Tasks :
        Len(future[i]) = 1 =>
            /\ ~ future[i][1].raised
            /\ future[i][1].ip = ip_list[i]
            /\ prim[i] = "rc_nonzero" =>
                 ~ future[i][1].success /\ future[i][1].info = "No response"
            /\ prim[i] = "expired" =>
                 ~ future[i][1].success /\ future[i][1].info = "Timeout"
            /\ prim[i] = "raised" =>
                 ~ future[i][1].success /\ future[i][1].info = "Error"

\* A run completed although one probe raised, one timed out and one got no
\* response, each logged as FAILED with its diagnostic.
C5_Witness ==
    /\ pc = "done"
    /\ \E i, j, k \in Tasks :
        /\ prim[i] = "raised" /\ prim[j] = "expired" /\ prim[k] = "rc_nonzero"
        /\ << ip_list[i], "FAILED", "Error" >> \in Range(failure_log)
        /\ << ip_list[j], "FAILED", "Timeout" >> \in Range(failure_log)
        /\ << ip_list[k], "FAILED", "No response" >> \in Range(failure_log)

\* C6: every probe that is started is eventually resolved; one whose
\* primitive call is still running at the outer deadline (timeout + 2
\* seconds) is resolved as unreachable with detail "Timeout"; and the run
\* eventually finishes.
C6_EveryProbeResolved ==
    /\ <>(pc \in {"done", "crashed", "aborted", "exited"})
    /\ [](pc \in {"done", "crashed", "aborted"} =>
            \A i \in Tasks : i \notin Running \cup Queued /\ Len(future[i]) = 1)
    /\ [][\A i \in Tasks :
            (i \in Running /\ elapsed[i] = Deadline(timeout)
               /\ pstate'[i] # pstate[i])
            => /\ Len(future'[i]) = 1
               /\ ~ future'[i][1].success
               /\ future'[i][1].info = "Timeout"]_vars

\* A probe hit the outer deadline and the run completed with it recorded as
\* a timeout.
C6_Witness ==
    /\ pc = "done"
    /\ \E i \in Tasks :
        /\ prim[i] = "expired"
        /\ << ip_list[i], "FAILED", "Timeout" >> \in Range(failure_log)

\* C10: when the one-shot command completes a run over a non-empty host
\* list, it exits with code 0 iff every host's result is reachable and with
\* code 1 iff at least one host's result is unreachable.
C10_ExitCode ==
    (mode = "main" /\ pc = "done") =>
        /\ exit_code \in {<< 0 >>, << 1 >>}
        /\ exit_code = << 0 >> <=>
             \A i \in Tasks : future[i][1].success
        /\ exit_code = << 1 >> <=>
             \E i \in Tasks : ~ future[i][1].success

\* Three hosts, exactly one unreachable: exit code 1.
C10_Witness ==
    /\ mode = "main"
    /\ pc = "done"
    /\ Len(ip_list) = 3
    /\ Cardinality({ i \in Tasks : ~ future[i][1].success }) = 1
    /\ exit_code = << 1 >>

(***************************************************************************)
(* The classifier: analyze_logs.categorize_ips.                            *)
(***************************************************************************)
\* The dicts ip -> count over the hosts, counts up to n.
CountDicts(n) == UNION { [D -> 0..n] : D \in SUBSET Hosts }

\* dict.setdefault(ip, 0): a read that inserts a missing key.
dict_after_setdefault(d, ip) ==
    [k \in (DOMAIN d) \cup {ip} |-> IF k \in DOMAIN d THEN d[k] ELSE 0]

\* d.get(ip, 0) leaves the dict as it is.
dict_after_get(d, ip) == d

\* d.get(ip, 0)
dict_get(d, ip) == IF ip \in DOMAIN d THEN d[ip] ELSE 0

\* The if/elif chain with its first test reduced to `successes == 0`.
category_never_if_no_success(successes, failures) ==
    IF successes = 0 THEN "never"
    ELSE IF failures = 0 /\ successes > 0 THEN "always"
    ELSE IF successes > 0 /\ failures > 0 THEN "sometimes"
    ELSE "none"

\* The if/elif chain with its second test reduced to `failures == 0`.
category_always_if_no_failure(successes, failures) ==
    IF successes = 0 /\ failures > 0 THEN "never"
    ELSE IF failures = 0 THEN "always"
    ELSE IF successes > 0 /\ failures > 0 THEN "sometimes"
    ELSE "none"

\* The if/elif chain of the loop body: the set the ip is added to.
category(successes, failures) ==
    IF successes = 0 /\ failures > 0 THEN "never"
    ELSE IF failures = 0 /\ successes > 0 THEN "always"
    ELSE IF successes > 0 /\ failures > 0 THEN "sometimes"
    ELSE "none"

\* categorize_ips is called: all_ips and the three empty sets.
CallCategorize ==
    /\ cpc \in {"idle", "returned"}
    /\ calls < 2
    /\ calls' = calls + 1
    /\ cpc' = "loop"
    /\ todo' = (DOMAIN success_counts) \cup (DOMAIN failure_counts)
    /\ never_responded' = {}
    /\ always_responded' = {}
    /\ sometimes_responded' = {}
    /\ UNCHANGED << success_counts, failure_counts, first_sets >>
    /\ UNCHANGED << runVars, schedVars, extVars >>

\* One iteration of `for ip in all_ips` (a set: any order).
LoopStep(ip) ==
    /\ cpc = "loop"
    /\ ip \in todo
    /\ LET successes == dict_get(success_counts, ip)
           failures == dict_get(failure_counts, ip)
           c == category(successes, failures)
       IN  /\ never_responded' =
                IF c = "never" THEN never_responded \cup {ip} ELSE never_responded
           /\ always_responded' =
                IF c = "always" THEN always_responded \cup {ip} ELSE always_responded
           /\ sometimes_responded' =
                IF c = "sometimes" THEN sometimes_responded \cup {ip}
                ELSE sometimes_responded
    /\ success_counts' = dict_after_get(success_counts, ip)
    /\ failure_counts' = dict_after_get(failure_counts, ip)
    /\ todo' = todo \ {ip}
    /\ UNCHANGED << cpc, calls, first_sets >>
    /\ UNCHANGED << runVars, schedVars, extVars >>

\* The loop is over: the three sets are returned.
ReturnSets ==
    /\ cpc = "loop"
    /\ todo = {}
    /\ cpc' = "returned"
    /\ first_sets' = IF calls = 1
                     THEN << << never_responded, always_responded,
                                sometimes_responded >> >>
                     ELSE first_sets
    /\ UNCHANGED << success_counts, failure_counts, todo, never_responded,
                    always_responded, sometimes_responded, calls >>
    /\ UNCHANGED << runVars, schedVars, extVars >>

InitClassify ==
    /\ success_counts \in CountDicts(MaxCount)
    /\ failure_counts \in CountDicts(MaxCount)
    /\ cpc = "idle"
    /\ todo = {}
    /\ never_responded = {}
    /\ always_responded = {}
    /\ sometimes_responded = {}
    /\ calls = 0
    /\ first_sets = << >>
    /\ RunIdle
    /\ SchedIdle
    /\ ParamIdle
    /\ ExtIdle

NextClassify ==
    \/ CallCategorize
    \/ \E ip \in Hosts : LoopStep(ip)
    \/ ReturnSets

SpecClassify == InitClassify /\ [][NextClassify]_vars

(***************************************************************************)
(* Properties of the classifier.                                           *)
(***************************************************************************)
Successes(h) == dict_get(success_counts, h)
Failures(h) == dict_get(failure_counts, h)

\* C7: the three returned sets are pairwise disjoint, their union is exactly
\* the set of hosts with successCount + failureCount > 0, and a host whose
\* tally is (0,0) is in none of them.
C7_Partition ==
    cpc = "returned" =>
        /\ never_responded \cap always_responded = {}
        /\ never_responded \cap sometimes_responded = {}
        /\ always_responded \cap sometimes_responded = {}
        /\ never_responded \cup always_responded \cup sometimes_responded
             = { h \in Hosts : Successes(h) + Failures(h) > 0 }
        /\ \A h \in Hosts :
             (Successes(h) = 0 /\ Failures(h) = 0) =>
                 h \notin never_responded \cup always_responded
                          \cup sometimes_responded

\* A call returned with a (0,0) host among the keys left out while two
\* other hosts were classified in different sets.
C7_Witness ==
    /\ cpc = "returned"
    /\ \E h \in (DOMAIN success_counts) \cap (DOMAIN failure_counts) :
        /\ success_counts[h] = 0 /\ failure_counts[h] = 0
        /\ h \notin never_responded \cup always_responded \cup sometimes_responded
    /\ never_responded # {}
    /\ sometimes_responded # {}

\* C8: a host is in never_responded iff successCount = 0 and
\* failureCount > 0, in always_responded iff failureCount = 0 and
\* successCount > 0, in sometimes_responded iff both counts are > 0.
C8_CategoryRule ==
    cpc = "returned" =>
        \A h \in Hosts :
            /\ h \in never_responded <=> (Successes(h) = 0 /\ Failures(h) > 0)
            /\ h \in always_responded <=> (Failures(h) = 0 /\ Successes(h) > 0)
            /\ h \in sometimes_responded <=> (Successes(h) > 0 /\ Failures(h) > 0)

\* The example, with B's count scaled to the bound: h1:(0,3), h2:(3,0),
\* h3:(2,2) gives never = {h1}, always = {h2}, sometimes = {h3}.
C8_Witness ==
    /\ cpc = "returned"
    /\ DOMAIN success_counts = {"h2", "h3"}
    /\ DOMAIN failure_counts = {"h1", "h3"}
    /\ failure_counts["h1"] = 3
    /\ success_counts["h2"] = 3
    /\ success_counts["h3"] = 2 /\ failure_counts["h3"] = 2
    /\ never_responded = {"h1"}
    /\ always_responded = {"h2"}
    /\ sometimes_responded = {"h3"}

\* C9: a second call on the same tallies returns the same three sets as the
\* first, whatever order each call visits the hosts in, and no step of a
\* call changes the input count maps.
C9_Idempotent ==
    /\ []((cpc = "returned" /\ calls = 2) =>
            << never_responded, always_responded, sometimes_responded >>
                = first_sets[1])
    /\ [][success_counts' = success_counts
            /\ failure_counts' = failure_counts]_vars

\* The second call returned, with hosts in every set, one host known to one
\* dict only.
C9_Witness ==
    /\ cpc = "returned"
    /\ calls = 2
    /\ never_responded # {}
    /\ always_responded # {}
    /\ sometimes_responded # {}
    /\ DOMAIN success_counts # DOMAIN failure_counts

(***************************************************************************)
(* The scheduler of the daemon: BlockingScheduler with the jobs of         *)
(* add_jobs_from_config, each a ping_job on its own cron trigger.          *)
(***************************************************************************)
\* The state of a job in the terms of the design: Idle, Triggered (its run
\* is submitted and waits for a thread), Running.
JobState(j) ==
    IF running[j] > 0 THEN "Running"
    ELSE IF instances[j] > 0 THEN "Triggered"
    ELSE "Idle"

\* The threads of the scheduler's executor that run a job.
BusyThreads == { j \in jobs : running[j] > 0 }

\* A scheduler whose jobs were added with no limit of instances.
max_instances_unlimited(j) == FALSE

\* The executor refuses a run of a job that has max_instances runs already.
max_instances_reached(j) == instances[j] >= MaxInstances

\* A thread of the scheduler's executor is free.
executor_has_free_thread == Cardinality(BusyThreads) < PoolSize

\* The cron trigger of job j fires.  The scheduler submits a run unless the
\* job has reached max_instances: then it logs that the execution is
\* skipped and submits nothing.  A submitted run starts at once when a
\* thread is free (ping_job logs its start), else it waits in the pool.
Trigger(j) ==
    /\ j \in jobs
    /\ IF max_instances_reached(j)
       THEN /\ lastEvent' = "skipped"
            /\ UNCHANGED << instances, running >>
       ELSE /\ instances' = [instances EXCEPT ![j] = @ + 1]
            /\ IF executor_has_free_thread
               THEN /\ running' = [running EXCEPT ![j] = @ + 1]
                    /\ lastEvent' = "starting"
               ELSE UNCHANGED << running, lastEvent >>
    /\ UNCHANGED jobs
    /\ UNCHANGED << runVars, classVars, extVars >>

\* A thread got free and takes a waiting run in time: ping_job starts.
StartQueued(j) ==
    /\ j \in jobs
    /\ instances[j] > running[j]
    /\ executor_has_free_thread
    /\ running' = [running EXCEPT ![j] = @ + 1]
    /\ lastEvent' = "starting"
    /\ UNCHANGED << jobs, instances >>
    /\ UNCHANGED << runVars, classVars, extVars >>

\* A thread got free and takes a waiting run more than misfire_grace_time
\* (1 second) after its trigger time: the run is logged as missed and
\* ping_job is not called.
MissQueued(j) ==
    /\ j \in jobs
    /\ instances[j] > running[j]
    /\ executor_has_free_thread
    /\ instances' = [instances EXCEPT ![j] = @ - 1]
    /\ lastEvent' = "missed"
    /\ UNCHANGED << jobs, running >>
    /\ UNCHANGED << runVars, classVars, extVars >>

\* ping_job ends: it returned (_job_executed logs it) or an exception it
\* does not catch left it (_job_error logs it).
JobEnds(j, how) ==
    /\ j \in jobs
    /\ running[j] > 0
    /\ how \in {"executed", "error"}
    /\ running' = [running EXCEPT ![j] = @ - 1]
    /\ instances' = [instances EXCEPT ![j] = @ - 1]
    /\ lastEvent' = how
    /\ UNCHANGED jobs
    /\ UNCHANGED << runVars, classVars, extVars >>

\* The daemon after start(): n jobs were added, none has run yet.
InitSched ==
    /\ \E n \in 1..(PoolSize + ExtraJobs) : jobs = 1..n
    /\ instances = [j \in jobs |-> 0]
    /\ running = [j \in jobs |-> 0]
    /\ lastEvent = "none"
    /\ RunIdle
    /\ ClassIdle
    /\ ParamIdle
    /\ ExtIdle

NextSched ==
    \/ \E j \in jobs : Trigger(j)
    \/ \E j \in jobs : StartQueued(j)
    \/ \E j \in jobs : MissQueued(j)
    \/ \E j \in jobs, how \in {"executed", "error"} : JobEnds(j, how)

SpecSched == InitSched /\ [][NextSched]_vars

(***************************************************************************)
(* Properties of the scheduler.                                            *)
(***************************************************************************)
\* C3: no job ever has two runs at the same time; a trigger that comes
\* while the job's run is not over is skipped and logged, and no run is
\* queued for it.
C3_NoOverlap ==
    /\ [](\A j \in jobs : instances[j] <= 1 /\ running[j] <= 1)
    /\ [][\A j \in jobs : instances[j] >= 1 => instances'[j] <= instances[j]]_vars
    /\ [][(lastEvent' = "skipped" /\ lastEvent # "skipped") =>
            /\ instances' = instances
            /\ running' = running
            /\ \E j \in jobs : instances[j] >= 1]_vars

\* A tick of a job was skipped while that job's run goes on.
C3_Witness ==
    /\ lastEvent = "skipped"
    /\ \E j \in jobs : running[j] = 1 /\ instances[j] = 1

\* C4: while other jobs are Running, a job whose trigger fired starts
\* without waiting for any of them to finish: a triggered run never waits
\* with every thread of the executor taken by other jobs.
C4_JobsIndependent ==
    \A j \in jobs :
        JobState(j) = "Triggered" => executor_has_free_thread

(***************************************************************************)
(* Sink failures during a run.                                             *)
(***************************************************************************)
\* C11: a failing append to the sink (log_result raises) does not abort the
\* run: no run is ever left through the exception, and a run that has ended
\* has harvested the result of every host of its list.
C11_SinkFailureDoesNotAbort ==
    /\ pc \notin {"unwinding", "crashed", "aborted"}
    /\ RunEnded => Tasks = Harvested

(***************************************************************************)
(* The daemon process: PingDaemon.start loads the job sections of the      *)
(* configuration, starts the scheduler, serves triggers and is stopped by  *)
(* a signal.  The jobs are fewer than the executor's threads here, so a    *)
(* submitted run always starts at once.                                    *)
(***************************************************************************)
MaxSections == 2

\* What a section of the configuration file can be: not a job section, a
\* well-formed job section, or a job section with one defect.
SectionKinds == {"other", "valid", "missing_params", "bad_int",
                 "bad_field_count", "bad_cron"}

\* How a job run can end: the whole list was probed, the host file does not
\* exist, the host list is empty, an exception was raised while probing or
\* logging, read_ip_list called sys.exit.
RunEndings == {"completed", "missing_file", "empty_list", "exception",
               "sys_exit"}

\* What add_jobs_from_config does with a section: "ignored" (no job: prefix),
\* "missing_params", "invalid_schedule" and "error_adding" (an error is logged
\* and the loop goes on), "added", or "raises": getint is called before the
\* try statement, so its ValueError leaves add_jobs_from_config.
section_outcome(kind) ==
    CASE kind = "other" -> "ignored"
      [] kind = "missing_params" -> "missing_params"
      [] kind = "bad_int" -> "raises"
      [] kind = "bad_field_count" -> "invalid_schedule"
      [] kind = "bad_cron" -> "error_adding"
      [] kind = "valid" -> "added"

no_valid_jobs_never(n) == FALSE

\* The test after the loop of add_jobs_from_config.
no_valid_jobs(n) == n = 0

job_end_event_sys_exit_exits(ending) ==
    IF ending = "sys_exit" THEN "process_exit" ELSE "executed"

\* What the end of a run of ping_job is for the daemon.  ping_job returns
\* for every ending but sys.exit: SystemExit is not an Exception, leaves
\* ping_job on the executor's thread and is caught there by the executor,
\* which reports a job error.
job_end_event(ending) ==
    IF ending = "sys_exit" THEN "error" ELSE "executed"

instances_after_end_error_kept(n, event) ==
    IF event = "error" THEN n ELSE n - 1

\* The executor's count of a job's submitted runs after one of them ended:
\* the run is released whether the job function returned or raised.
instances_after_end(n, event) == n - 1

shutdown_no_wait == TRUE

\* scheduler.shutdown(wait=True) returns when no submitted run is left.
shutdown_wait_over == \A j \in jobs : instances[j] = 0

\* One iteration of the loop over config.sections().
LoadSection ==
    /\ dpc = "loading"
    /\ next_section <= Len(config)
    /\ LET k == next_section
           out == section_outcome(config[k])
       IN  /\ next_section' = k + 1
           /\ dpc' = IF out = "raises" THEN "crashed" ELSE dpc
           /\ daemon_exit' = IF out = "raises" THEN << 1 >> ELSE daemon_exit
           /\ jobs' = IF out = "added" THEN jobs \cup {k} ELSE jobs
           /\ instances' = IF out = "added"
                            THEN [j \in jobs \cup {k} |->
                                     IF j = k THEN 0 ELSE instances[j]]
                            ELSE instances
           /\ running' = IF out = "added"
                          THEN [j \in jobs \cup {k} |->
                                   IF j = k THEN 0 ELSE running[j]]
                          ELSE running
           /\ job_count' = IF out = "added" THEN job_count + 1 ELSE job_count
           /\ skipped' = IF out \in {"missing_params", "invalid_schedule",
                                     "error_adding"}
                          THEN skipped \cup {k} ELSE skipped
           /\ lastEvent' = IF out \in {"ignored", "raises"} THEN lastEvent
                            ELSE out
    /\ UNCHANGED << config, self_running, last_run >>
    /\ UNCHANGED << runVars, classVars, count, moreVars, cronVars, sinkVars,
                    report >>

\* The loop is over and no job was added: error, sys.exit(1).
NoValidJobs ==
    /\ dpc = "loading"
    /\ next_section > Len(config)
    /\ no_valid_jobs(job_count)
    /\ dpc' = "exited"
    /\ daemon_exit' = << 1 >>
    /\ lastEvent' = "no_valid_jobs"
    /\ UNCHANGED << jobs, instances, running, config, next_section, job_count,
                    skipped, self_running, last_run >>
    /\ UNCHANGED << runVars, classVars, count, moreVars, cronVars, sinkVars,
                    report >>

\* The loop is over with jobs: running = True, scheduler.start().
StartScheduler ==
    /\ dpc = "loading"
    /\ next_section > Len(config)
    /\ ~ no_valid_jobs(job_count)
    /\ self_running' = TRUE
    /\ dpc' = "serving"
    /\ lastEvent' = "started"
    /\ UNCHANGED << jobs, instances, running, config, next_section, job_count,
                    skipped, daemon_exit, last_run >>
    /\ UNCHANGED << runVars, classVars, count, moreVars, cronVars, sinkVars,
                    report >>

\* The scheduler's loop, on the main thread, handles a due trigger.
DaemonTrigger(j) ==
    /\ dpc = "serving"
    /\ Trigger(j)

\* A run of job j ends on its thread.
JobRunEnds(j, ending) ==
    /\ dpc \in {"serving", "stopping"}
    /\ running[j] >= 1
    /\ last_run' = ending
    /\ IF job_end_event(ending) = "process_exit"
       THEN /\ dpc' = "exited"
            /\ daemon_exit' = << 1 >>
            /\ UNCHANGED << instances, running, lastEvent >>
       ELSE /\ running' = [running EXCEPT ![j] = @ - 1]
            /\ instances' = [instances EXCEPT
                                ![j] = instances_after_end(@, job_end_event(ending))]
            /\ lastEvent' = job_end_event(ending)
            /\ UNCHANGED << dpc, daemon_exit >>
    /\ UNCHANGED << jobs, config, next_section, job_count, skipped,
                    self_running >>
    /\ UNCHANGED << runVars, classVars, count, moreVars, cronVars, sinkVars,
                    report >>

\* SIGINT or SIGTERM while the scheduler serves: _signal_handler runs on the
\* main thread and calls shutdown, which clears the flag and blocks in
\* scheduler.shutdown(wait=True).
SignalHandled ==
    /\ dpc = "serving"
    /\ self_running
    /\ self_running' = FALSE
    /\ dpc' = "stopping"
    /\ lastEvent' = "shutting_down"
    /\ UNCHANGED << jobs, instances, running, config, next_section, job_count,
                    skipped, daemon_exit, last_run >>
    /\ UNCHANGED << runVars, classVars, count, moreVars, cronVars, sinkVars,
                    report >>

\* scheduler.shutdown returns: "Daemon stopped", sys.exit(0).
ShutdownReturns ==
    /\ dpc = "stopping"
    /\ shutdown_wait_over
    /\ dpc' = "exited"
    /\ daemon_exit' = << 0 >>
    /\ lastEvent' = "stopped"
    /\ UNCHANGED << jobs, instances, running, config, next_section, job_count,
                    skipped, self_running, last_run >>
    /\ UNCHANGED << runVars, classVars, count, moreVars, cronVars, sinkVars,
                    report >>

InitDaemon ==
    /\ config \in SeqsUpTo(SectionKinds, MaxSections)
    /\ next_section = 1
    /\ job_count = 0
    /\ skipped = {}
    /\ self_running = FALSE
    /\ dpc = "loading"
    /\ daemon_exit = << >>
    /\ last_run = "none"
    /\ RunIdle
    /\ ClassIdle
    /\ SchedIdle
    /\ ParamIdle
    /\ CronIdle
    /\ SinkIdle
    /\ report = << >>
    /\ MoreIdle

NextDaemon ==
    \/ LoadSection
    \/ NoValidJobs
    \/ StartScheduler
    \/ \E j \in jobs : DaemonTrigger(j)
    \/ \E j \in jobs, ending \in RunEndings : JobRunEnds(j, ending)
    \/ SignalHandled
    \/ ShutdownReturns

SpecDaemon == InitDaemon /\ [][NextDaemon]_vars

\* The steps the daemon's main thread takes by itself.  A trigger waits for
\* its time, a signal for its sender, and a run may never end.
DaemonProgress ==
    \/ LoadSection
    \/ NoValidJobs
    \/ StartScheduler
    \/ ShutdownReturns

FairDaemon == WF_vars(DaemonProgress)

FairSpecDaemon == SpecDaemon /\ FairDaemon

(***************************************************************************)
(* Properties of the daemon process.                                       *)
(***************************************************************************)
MalformedKinds == {"missing_params", "bad_int", "bad_field_count", "bad_cron"}

\* The sections add_jobs_from_config has handled.
Handled == 1..(next_section - 1)

HasValidSection == \E k \in DOMAIN config : config[k] = "valid"

\* C12: every malformed job section that was handled was skipped with a
\* logged diagnostic, every valid job section that was handled was added,
\* and once loading is over a configuration with a valid job section has
\* its scheduler started.
C12_MalformedSectionSkipped ==
    /\ \A k \in Handled :
           /\ config[k] \in MalformedKinds => (k \in skipped /\ k \notin jobs)
           /\ config[k] = "valid" => k \in jobs
    /\ (dpc # "loading" /\ HasValidSection) =>
           (dpc \in {"serving", "stopping"} \/ daemon_exit = << 0 >>)

\* The log records that are written before the scheduler is started.
LoadingEvents == {"none", "missing_params", "invalid_schedule", "error_adding",
                  "added", "no_valid_jobs"}

C15_TerminatesDespiteHungRun == (dpc = "stopping") ~> (dpc = "exited")

\* C16: no end of a job run, whatever the failure, terminates the daemon:
\* a step that ends a run leaves the process as it is, a serving daemon
\* stops serving only by handling a stop signal, and it then exits with
\* code 0 from shutdown.
C16_JobFailureDoesNotStopDaemon ==
    /\ [][last_run' # last_run \/ (\E j \in jobs : instances'[j] < instances[j])
            => (dpc' = dpc /\ daemon_exit' = daemon_exit)]_vars
    /\ [][(dpc = "serving" /\ dpc' # "serving") =>
            (dpc' = "stopping" /\ lastEvent' = "shutting_down")]_vars
    /\ [][(dpc = "stopping" /\ dpc' # "stopping") =>
            (dpc' = "exited" /\ daemon_exit' = << 0 >>)]_vars

\* A run ended by the sys.exit of read_ip_list and the daemon still serves.
C16_Witness ==
    /\ dpc = "serving"
    /\ last_run = "sys_exit"
    /\ lastEvent = "error"
    /\ daemon_exit = << >>

(***************************************************************************)
(* A run with the parameters as the command line or the job section gives  *)
(* them: -t, -c and -w are parsed with type=int and timeout, count and     *)
(* workers with getint, so any integer is accepted.                        *)
(***************************************************************************)
InitRunAnyParams ==
    /\ mode \in {"main", "daemon"}
    /\ H \in HostLists(MaxLen - 1)
    /\ ip_list = << >>
    /\ workers \in 0..MaxWorkers
    /\ timeout \in 0..MaxTimeout
    /\ count \in 0..DEFAULT_PING_COUNT
    /\ pc = "start"
    /\ pstate = << >>
    /\ elapsed = << >>
    /\ prim = << >>
    /\ future = << >>
    /\ all_results = << >>
    /\ success_log = << >>
    /\ failure_log = << >>
    /\ successful = 0
    /\ failed = 0
    /\ exit_code = << >>
    /\ ClassIdle
    /\ SchedIdle
    /\ ExtIdle

SpecRunAnyParams == InitRunAnyParams /\ [][NextRun]_vars

\* C17: every run that has submitted its probes uses a timeout, a packet
\* count and a worker count that are all positive.
C17_ParamsPositive ==
    Tasks # {} => (timeout >= 1 /\ count >= 1 /\ workers >= 1)

(***************************************************************************)
(* A job's trigger.  add_jobs_from_config splits the schedule in five      *)
(* fields and hands them to CronTrigger(minute, hour, day, month,          *)
(* day_of_week).  The fields of the time of day and the month are tested   *)
(* the same way by every cron; the model follows the two day fields over   *)
(* the days 1..MaxDay of a month whose first day is a Monday.              *)
(***************************************************************************)
MaxDay == 14

\* The expressions of a field over the values vals: *, v, lo-hi, */n, v1,v2.
FieldExprs(vals) ==
    {[kind |-> "all"]}
    \cup {[kind |-> "value", v |-> v] : v \in vals}
    \cup {[kind |-> "range", lo |-> r[1], hi |-> r[2]] :
             r \in {x \in vals \X vals : x[1] < x[2]}}
    \cup {[kind |-> "step", n |-> n] : n \in {2, 3}}
    \cup {[kind |-> "list", v1 |-> r[1], v2 |-> r[2]] :
             r \in {x \in vals \X vals : x[1] < x[2]}}

\* The values of first..last a field expression stands for.
Expand(e, first, last) ==
    CASE e.kind = "all" -> first..last
      [] e.kind = "value" -> {e.v}
      [] e.kind = "range" -> e.lo..e.hi
      [] e.kind = "step" -> {v \in first..last : (v - first) % e.n = 0}
      [] e.kind = "list" -> {e.v1, e.v2}

\* The trigger's number of the weekday of day d: 0 is Monday.
trigger_weekday(d) == (d - 1) % 7

\* CronTrigger fires on the days on which every field matches.
trigger_matches(sch, d) ==
    /\ d \in Expand(sch.day, 1, 31)
    /\ trigger_weekday(d) \in Expand(sch.day_of_week, 0, 6)

\* One day passes; the trigger fires if the day matches.
CronDay ==
    /\ clock < MaxDay
    /\ clock' = clock + 1
    /\ fired' = trigger_matches(schedule, clock')
    /\ UNCHANGED schedule
    /\ UNCHANGED << runVars, classVars, schedVars, count, moreVars,
                    daemonVars,
                    sinkVars, report >>

InitCron ==
    /\ schedule \in [day : FieldExprs(1..MaxDay),
                      day_of_week : FieldExprs(0..6)]
    /\ clock = 0
    /\ fired = FALSE
    /\ RunIdle
    /\ ClassIdle
    /\ SchedIdle
    /\ ParamIdle
    /\ DaemonIdle
    /\ SinkIdle
    /\ report = << >>
    /\ MoreIdle

NextCron == CronDay

SpecCron == InitCron /\ [][NextCron]_vars

\* Standard cron: the number of the weekday of day d, 0 is Sunday.
cron_weekday(d) == d % 7

\* Standard cron: a field is restricted when it does not begin with a star.
Restricted(e) == e.kind \notin {"all", "step"}

\* Standard cron: a day matches when both day fields match, or, when both
\* are restricted, when one of them matches.
cron_matches(sch, d) ==
    LET dom == d \in Expand(sch.day, 1, 31)
        dow == cron_weekday(d) \in Expand(sch.day_of_week, 0, 6)
    IN  IF Restricted(sch.day) /\ Restricted(sch.day_of_week)
        THEN dom \/ dow
        ELSE dom /\ dow

\* C18: the job fires exactly on the days that match its schedule under
\* standard cron semantics (standard weekday numbers, day-of-month and
\* day-of-week OR'ed when both are restricted).
C18_FiresAtCronTimes ==
    clock >= 1 => (fired <=> cron_matches(schedule, clock))

(***************************************************************************)
(* The flat-file sink under two runs.  setup_logging names the log files   *)
(* by the second of the run's start, so two runs that start in the same    *)
(* second append to the same files.  Each run calls log_result from its    *)
(* own thread, one result after the other.  The model follows one of the   *)
(* two files (the *_failed.txt file) as the sequence of the pieces of text *)
(* it holds: the three fields of a record and the end of line.  A write    *)
(* system call on a file opened for appending adds its bytes at the end of *)
(* the file in one step.                                                   *)
(***************************************************************************)
MaxLines == 2

Writers == {1, 2}

\* The results a run may have to log in the file.
SinkResults == {ping_host(h, "rc_nonzero") : h \in {"h1", "h2"}}

\* The text log_result formats for a result.
line_text(r) == Append(log_line(r), "\n")

flush_writes_per_field(line) == [k \in 1..Len(line) |-> << line[k] >>]

\* The write system calls of one log_result call: f.write puts the line in
\* the file object's buffer and the end of the with block flushes it, so the
\* whole line goes out in one call.
flush_writes(line) == << line >>

\* log_result up to the flush: open(log_file, 'a'), f.write(...).
LogResult(w) ==
    /\ wstate[w] = << >>
    /\ wtodo[w] # << >>
    /\ wstate' = [wstate EXCEPT ![w] = flush_writes(line_text(Head(wtodo[w])))]
    /\ UNCHANGED << sink_file, wtodo >>
    /\ UNCHANGED << runVars, classVars, schedVars, count, moreVars,
                    daemonVars,
                    cronVars, report >>

\* One write system call of the flush; after the last one log_result
\* returns.
SysWrite(w) ==
    /\ wstate[w] # << >>
    /\ sink_file' = sink_file \o Head(wstate[w])
    /\ wstate' = [wstate EXCEPT ![w] = Tail(@)]
    /\ wtodo' = IF Len(wstate[w]) = 1
                THEN [wtodo EXCEPT ![w] = Tail(@)]
                ELSE wtodo
    /\ UNCHANGED << runVars, classVars, schedVars, count, moreVars,
                    daemonVars,
                    cronVars, report >>

InitSink ==
    /\ sink_file = << >>
    /\ wstate = [w \in Writers |-> << >>]
    /\ wtodo \in [Writers -> SeqsUpTo(SinkResults, MaxLines)]
    /\ RunIdle
    /\ ClassIdle
    /\ SchedIdle
    /\ ParamIdle
    /\ DaemonIdle
    /\ CronIdle
    /\ report = << >>
    /\ MoreIdle

NextSink ==
    \/ \E w \in Writers : LogResult(w)
    \/ \E w \in Writers : SysWrite(w)

SpecSink == InitSink /\ [][NextSink]_vars

\* The number of pieces of one record line.
RecordLen == Len(line_text(CHOOSE r \in SinkResults : TRUE))

\* The lines of the file: its pieces, cut after every RecordLen-th.
FileLines ==
    [k \in 1..((Len(sink_file) + RecordLen - 1) \div RecordLen) |->
        SubSeq(sink_file, (k - 1) * RecordLen + 1,
               IF k * RecordLen <= Len(sink_file) THEN k * RecordLen
               ELSE Len(sink_file))]

\* C19: whatever the interleaving of the two runs, every line of the shared
\* log file is exactly one complete host, STATUS, detail record of one
\* result.
C19_RecordsNeverInterleave ==
    \A k \in DOMAIN FileLines :
        \E r \in SinkResults : FileLines[k] = line_text(r)

\* Both runs are inside log_result at the same time, each with its line
\* ready, and the file already holds a record.
C19_Witness ==
    /\ sink_file # << >>
    /\ \A w \in Writers : wstate[w] # << >>

(***************************************************************************)
(* The report of the hosts that sometimes responded: analyze_logs.main     *)
(* categorizes the tallies and write_analysis_files writes one row per host *)
(* of sometimes_responded, with the success rate.  A rate is held in       *)
(* tenths of a percent, as the file shows it.                              *)
(***************************************************************************)
MaxTally == 15

\* The tallies parse_log_files can return for one host: a key is present
\* only with a count of at least one.
TallyDicts(n) == UNION { [D -> 1..n] : D \in SUBSET {"h1"} }

\* sorted(S)
SortedSeq(S) ==
    CHOOSE q \in [1..Cardinality(S) -> S] :
        /\ Range(q) = S
        /\ \A i, j \in 1..Cardinality(S) : i < j => Rank(q[i]) < Rank(q[j])

format_tenths_truncating(num, den) == (10 * num) \div den

\* f"{x:.1f}" of x = num / den: the nearest tenth, the even one of two
\* equally near tenths.
format_tenths(num, den) ==
    LET q == (10 * num) \div den
        r == (10 * num) % den
    IN  IF 2 * r > den THEN q + 1
        ELSE IF 2 * r = den /\ q % 2 = 1 THEN q + 1
        ELSE q

\* success_rate = (successes / total * 100) if total > 0 else 0, as written
\* with one decimal.
success_rate(successes, total) ==
    IF total > 0 THEN format_tenths(successes * 100, total) ELSE 0

\* The row of one host of the sometimes-responded file.
report_row(ip) ==
    LET successes == dict_get(success_counts, ip)
        failures == dict_get(failure_counts, ip)
        total == successes + failures
    IN  [ip |-> ip, successes |-> successes, failures |-> failures,
         rate |-> success_rate(successes, total)]

\* write_analysis_files, after categorize_ips has returned.
WriteAnalysis ==
    /\ cpc = "returned"
    /\ cpc' = "written"
    /\ report' = [k \in 1..Cardinality(sometimes_responded) |->
                     report_row(SortedSeq(sometimes_responded)[k])]
    /\ UNCHANGED << success_counts, failure_counts, todo, never_responded,
                    always_responded, sometimes_responded, calls, first_sets >>
    /\ UNCHANGED << runVars, schedVars, count, moreVars,
                    daemonVars, cronVars,
                    sinkVars >>

\* main goes on to categorize_ips only when a log line was found.
InitReport ==
    /\ success_counts \in TallyDicts(MaxTally)
    /\ failure_counts \in TallyDicts(MaxTally)
    /\ (DOMAIN success_counts) \cup (DOMAIN failure_counts) # {}
    /\ cpc = "idle"
    /\ todo = {}
    /\ never_responded = {}
    /\ always_responded = {}
    /\ sometimes_responded = {}
    /\ calls = 0
    /\ first_sets = << >>
    /\ RunIdle
    /\ SchedIdle
    /\ ParamIdle
    /\ ExtIdle

NextReport ==
    \/ CallCategorize
    \/ \E ip \in Hosts : LoopStep(ip)
    \/ ReturnSets
    \/ WriteAnalysis

SpecReport == InitReport /\ [][NextReport]_vars

\* C20: every row of the sometimes-responded report has a positive total,
\* so its rate is a quotient, and the rate shown is a tenth nearest to
\* successes / (successes + failures) x 100: it differs from it by at most
\* half a tenth.
C20_RateRounded ==
    \A k \in DOMAIN report :
        LET row == report[k]
            total == row.successes + row.failures
            diff == row.rate * total - 1000 * row.successes
        IN  /\ row.ip \in sometimes_responded
            /\ row.successes = dict_get(success_counts, row.ip)
            /\ row.failures = dict_get(failure_counts, row.ip)
            /\ total > 0
            /\ 2 * diff <= total
            /\ 2 * diff >= 0 - total

\* The report was written for a host with 2 successes and 2 failures: its
\* row shows 50.0%.
C20_Witness ==
    \E k \in DOMAIN report :
        /\ report[k].successes = 2
        /\ report[k].failures = 2
        /\ report[k].rate = 500

(***************************************************************************)
(* The jobs of a serving daemon in the long run.  A run of ping_job ends:  *)
(* each of its probes is bounded by the outer deadline and its loop        *)
(* handles every future once.  The clock goes on, so the scheduler's loop  *)
(* keeps handling the fire times of every job's trigger as long as the     *)
(* daemon serves.                                                          *)
(***************************************************************************)
JobIds == 1..MaxSections

RunEndsOf(j) == j \in jobs /\ \E ending \in RunEndings : JobRunEnds(j, ending)

TriggerOf(j) == j \in jobs /\ DaemonTrigger(j)

FairJobs ==
    /\ WF_vars(DaemonProgress)
    /\ \A j \in JobIds : WF_vars(RunEndsOf(j)) /\ WF_vars(TriggerOf(j))

FairSpecJobs == SpecDaemon /\ FairJobs

\* C21: every run of a job that is Running eventually ends and leaves the
\* job Idle, whatever its ending; an Idle job of a serving daemon is
\* eventually triggered again and its run starts; and a fire time is handled
\* for every job in every state of the serving daemon, a running job's
\* included (it is then skipped), so the fire times do not depend on the
\* ends of the runs.
C21_JobReturnsToIdle ==
    /\ \A j \in JobIds :
           (j \in jobs /\ running[j] = 1) ~> (j \in jobs /\ instances[j] = 0)
    /\ \A j \in JobIds :
           (j \in jobs /\ dpc = "serving" /\ instances[j] = 0)
               ~> ((j \in jobs /\ running[j] = 1) \/ dpc # "serving")
    /\ [](dpc = "serving" => \A j \in jobs : ENABLED DaemonTrigger(j))

\* A job whose last run ended with an internal error runs again.
C21_Witness ==
    /\ dpc = "serving"
    /\ Cardinality(jobs) = 1
    /\ last_run \in {"exception", "sys_exit"}
    /\ lastEvent = "starting"
    /\ \E j \in jobs : running[j] = 1

(***************************************************************************)
(* Probes of one run next to each other.                                   *)
(***************************************************************************)
\* C22: the step in which a probe hits the outer deadline changes nothing
\* of any other probe and does not end the run's loop; every result a
\* future holds is what ping_host makes of that host's own primitive call;
\* and a run that has ended with a probe timed out has a result for every
\* host of its list.
C22_StuckProbeLeavesSiblings ==
    /\ [][\A i \in Tasks :
            (i \in Running /\ elapsed[i] = Deadline(timeout)
               /\ pstate'[i] = "resolved")
            => /\ pc' = pc
               /\ \A k \in Tasks \ {i} :
                    /\ pstate'[k] = pstate[k]
                    /\ prim'[k] = prim[k]
                    /\ future'[k] = future[k]
                    /\ elapsed'[k] = elapsed[k]]_vars
    /\ [](\A i \in Tasks :
            Len(future[i]) = 1 =>
                /\ prim[i] # "none"
                /\ future[i][1] = ping_host(ip_list[i], prim[i]))
    /\ []((RunEnded /\ \E h \in Tasks : prim[h] = "expired") =>
            \A i \in Tasks : Len(future[i]) = 1)

\* A run completed in which one probe hit the outer deadline and another
\* host's probe returned its round-trip time, logged as SUCCESS.
C22_Witness ==
    /\ pc = "done"
    /\ \E h, i \in Tasks :
        /\ prim[h] = "expired"
        /\ prim[i] = "rc0_time"
        /\ << ip_list[i], "SUCCESS", "time_ms" >> \in Range(success_log)
        /\ << ip_list[h], "FAILED", "Timeout" >> \in Range(failure_log)

(***************************************************************************)
(* The runs of the daemon's jobs and their host files.  ping_job resolves  *)
(* the job's ip_file when the run starts: the file may be missing,         *)
(* unreadable, empty, or hold host lines.  A run is followed host by host: *)
(* a host is probed and its result line is written.                        *)
(***************************************************************************)
MaxFileLines == 2

FileHosts == {"h1", "h2"}

\* The states of a host file.
Sources ==
    {[state |-> st, lines |-> << >>] : st \in {"missing", "unreadable"}}
    \cup {[state |-> "file", lines |-> l] : l \in SeqsUpTo(FileHosts, MaxFileLines)}

\* ping_job without its exists() test: read_ip_list meets the missing file.
run_start_no_exists_test(src) ==
    IF src.state \in {"missing", "unreadable"} THEN "sys_exit"
    ELSE IF read_ip_list(src.lines) = << >> THEN "no_ips"
    ELSE "probing"

\* The beginning of ping_job: the file does not exist (error logged,
\* return), read_ip_list cannot read it (message printed, sys.exit), it has
\* no host (warning logged, return), or the probes are submitted.
run_start(src) ==
    IF src.state = "missing" THEN "ip_file_missing"
    ELSE IF src.state = "unreadable" THEN "sys_exit"
    ELSE IF read_ip_list(src.lines) = << >> THEN "no_ips"
    ELSE "probing"

\* A run that keeps the host list of the job's run before it.
hosts_for_run_cached(earlier, lines) ==
    IF earlier # {} THEN earlier ELSE Range(read_ip_list(lines))

\* The hosts of a run: read_ip_list of the file, called in the run.
hosts_for_run(earlier, lines) == Range(read_ip_list(lines))

\* ping_job up to the submission of the probes.
RunReads(j) ==
    /\ j \in jobs
    /\ running[j] = 1
    /\ rpos[j] = "idle"
    /\ LET out == run_start(source[j]) IN
        /\ rpos' = [rpos EXCEPT ![j] =
                       CASE out = "probing" -> "probing"
                         [] out = "sys_exit" -> "raising"
                         [] OTHER -> "returning"]
        /\ run_hosts' = [run_hosts EXCEPT ![j] =
                            IF out = "probing"
                            THEN hosts_for_run(run_hosts[j], source[j].lines)
                            ELSE {}]
        /\ lastEvent' = CASE out = "probing" -> "testing"
                           [] out = "sys_exit" -> lastEvent
                           [] OTHER -> out
    /\ prev_hosts' = [prev_hosts EXCEPT ![j] = run_hosts[j]]
    /\ probed' = [probed EXCEPT ![j] = {}]
    /\ written' = [written EXCEPT ![j] = 0]
    /\ UNCHANGED << jobs, instances, running, source >>
    /\ UNCHANGED << runVars, classVars, count, daemonVars, cronVars, sinkVars,
                    report, laterVars >>

\* One host of the run: ping_host is called and log_result writes its line.
ProbeHost(j, h) ==
    /\ j \in jobs
    /\ rpos[j] = "probing"
    /\ h \in run_hosts[j] \ probed[j]
    /\ probed' = [probed EXCEPT ![j] = @ \cup {h}]
    /\ written' = [written EXCEPT ![j] = @ + 1]
    /\ UNCHANGED << jobs, instances, running, lastEvent, source, rpos,
                    run_hosts, prev_hosts >>
    /\ UNCHANGED << runVars, classVars, count, daemonVars, cronVars, sinkVars,
                    report, laterVars >>

\* Every future was handled: the summary is logged.
RunCompletes(j) ==
    /\ j \in jobs
    /\ rpos[j] = "probing"
    /\ probed[j] = run_hosts[j]
    /\ rpos' = [rpos EXCEPT ![j] = "returning"]
    /\ lastEvent' = "completed"
    /\ UNCHANGED << jobs, instances, running, source, run_hosts, prev_hosts,
                    probed, written >>
    /\ UNCHANGED << runVars, classVars, count, daemonVars, cronVars, sinkVars,
                    report, laterVars >>

\* ping_job returns, or the SystemExit leaves it: the executor releases the
\* run and reports it.
RunReturns(j) ==
    /\ j \in jobs
    /\ rpos[j] \in {"returning", "raising"}
    /\ rpos' = [rpos EXCEPT ![j] = "idle"]
    /\ running' = [running EXCEPT ![j] = @ - 1]
    /\ instances' = [instances EXCEPT ![j] = @ - 1]
    /\ lastEvent' = IF rpos[j] = "raising" THEN "error" ELSE "executed"
    /\ UNCHANGED << jobs, source, run_hosts, prev_hosts, probed, written >>
    /\ UNCHANGED << runVars, classVars, count, daemonVars, cronVars, sinkVars,
                    report, laterVars >>

\* Somebody changes, creates or removes the host file of a job.
EditSource(j, src) ==
    /\ j \in jobs
    /\ src \in Sources
    /\ src # source[j]
    /\ source' = [source EXCEPT ![j] = src]
    /\ UNCHANGED << jobs, instances, running, lastEvent, rpos, run_hosts,
                    prev_hosts, probed, written >>
    /\ UNCHANGED << runVars, classVars, count, daemonVars, cronVars, sinkVars,
                    report, laterVars >>

\* A serving daemon with the jobs of J, none of them run yet.
InitJobs(J) ==
    /\ jobs = J
    /\ instances = [j \in J |-> 0]
    /\ running = [j \in J |-> 0]
    /\ lastEvent = "started"
    /\ source \in [J -> Sources]
    /\ rpos = [j \in J |-> "idle"]
    /\ run_hosts = [j \in J |-> {}]
    /\ prev_hosts = [j \in J |-> {}]
    /\ probed = [j \in J |-> {}]
    /\ written = [j \in J |-> 0]
    /\ RunIdle
    /\ ClassIdle
    /\ ParamIdle
    /\ DaemonIdle
    /\ CronIdle
    /\ SinkIdle
    /\ report = << >>
    /\ LaterIdle

\* Two jobs whose host files stay as they are.
InitJobRuns == InitJobs({1, 2})

NextJobRuns ==
    \/ \E j \in jobs : Trigger(j)
    \/ \E j \in jobs : RunReads(j)
    \/ \E j \in jobs, h \in FileHosts : ProbeHost(j, h)
    \/ \E j \in jobs : RunCompletes(j)
    \/ \E j \in jobs : RunReturns(j)

SpecJobRuns == InitJobRuns /\ [][NextJobRuns]_vars

\* One job whose host file changes at any time.
InitJobSource == InitJobs({1})

NextJobSource ==
    \/ NextJobRuns
    \/ \E j \in jobs, src \in Sources : EditSource(j, src)

SpecJobSource == InitJobSource /\ [][NextJobSource]_vars

(***************************************************************************)
(* Properties of the jobs' runs.                                           *)
(***************************************************************************)
\* The host file gives no host set: it does not exist or it has no host.
SourceUnavailable(src) ==
    src.state = "missing" \/ (src.state = "file" /\ src.lines = << >>)

\* Everything the model holds about job k.
JobView(k) ==
    << instances[k], running[k], source[k], rpos[k], run_hosts[k],
       prev_hosts[k], probed[k], written[k] >>

\* C23: a run that starts while its job's host file is missing or without
\* hosts is aborted with a logged diagnostic, probes no host and writes no
\* result; the job stays scheduled and is Idle again after the run; and
\* no step of a job's run changes anything of another job.
C23_SourceUnavailableIsLocal ==
    /\ [][\A j \in jobs :
            (rpos[j] = "idle" /\ rpos'[j] # "idle"
               /\ SourceUnavailable(source[j]))
            => /\ rpos'[j] = "returning"
               /\ lastEvent' \in {"ip_file_missing", "no_ips"}
               /\ run_hosts'[j] = {}
               /\ probed'[j] = {}
               /\ written'[j] = 0]_vars
    /\ [](\A j \in jobs :
            run_hosts[j] = {} => (probed[j] = {} /\ written[j] = 0))
    /\ [][jobs' = jobs]_vars
    /\ [](\A j \in jobs :
            (rpos[j] = "idle" /\ running[j] = 0)
                => (instances[j] = 0 /\ ENABLED Trigger(j)))
    /\ [][\A j, k \in jobs :
            (j # k /\ JobView(j)' # JobView(j)) => JobView(k)' = JobView(k)]_vars

\* The run of job 1 was aborted for its missing host file while the run of
\* job 2 is probing and has written a result.
C23_Witness ==
    /\ source[1].state = "missing"
    /\ rpos[1] = "returning"
    /\ lastEvent = "ip_file_missing"
    /\ rpos[2] = "probing"
    /\ written[2] >= 1

\* The hosts on the lines of a host file.
LinesHosts(src) == {src.lines[k] : k \in DOMAIN src.lines}

\* C24: the hosts of a run are the hosts on the lines the job's host file
\* has when the run reads it, at its start; the run keeps that set, probes
\* only hosts of it, and has probed all of it when it completes.
C24_SourceResolvedAtTrigger ==
    /\ [][\A j \in jobs :
            (rpos[j] = "idle" /\ rpos'[j] = "probing")
            => (source[j].state = "file"
                /\ run_hosts'[j] = LinesHosts(source[j]))]_vars
    /\ [][\A j \in jobs :
            rpos[j] = "probing"
            => (run_hosts'[j] = run_hosts[j]
                /\ probed[j] \subseteq probed'[j]
                /\ probed'[j] \subseteq run_hosts[j])]_vars
    /\ [](\A j \in jobs :
            (rpos[j] = "returning" /\ run_hosts[j] # {})
                => probed[j] = run_hosts[j])

\* The host file was changed between two runs of the job: the later run
\* has read and probed other hosts than the run before it.
C24_Witness ==
    /\ rpos[1] = "returning"
    /\ prev_hosts[1] # {}
    /\ run_hosts[1] # {}
    /\ run_hosts[1] \cap prev_hosts[1] = {}
    /\ probed[1] = run_hosts[1]
    /\ run_hosts[1] = LinesHosts(source[1])

Whitespace == {" ", "\t", "\n"}

RECURSIVE lstrip(_)
lstrip(t) == IF t # << >> /\ t[1] \in Whitespace THEN lstrip(Tail(t)) ELSE t

RECURSIVE rstrip(_)
rstrip(t) ==
    IF t # << >> /\ t[Len(t)] \in Whitespace
    THEN rstrip(SubSeq(t, 1, Len(t) - 1))
    ELSE t

\* str.strip()
strip(t) == lstrip(rstrip(t))

\* The position of the first occurrence of character c in t (0: none).
Find(t, c) ==
    IF \E i \in 1..Len(t) : t[i] = c
    THEN CHOOSE i \in 1..Len(t) : t[i] = c /\ \A m \in 1..(i - 1) : t[m] # c
    ELSE 0

\* str.split(sep) for a one-character separator: the pieces between the
\* separators, at least one piece.
RECURSIVE split(_, _)
split(t, sep) ==
    IF Find(t, sep) = 0 THEN << t >>
    ELSE << SubSeq(t, 1, Find(t, sep) - 1) >>
         \o split(SubSeq(t, Find(t, sep) + 1, Len(t)), sep)

\* `for line in f`: the lines of a text, each with its line end (the last
\* one has none when the text does not end with one).
RECURSIVE file_lines(_)
file_lines(t) ==
    IF t = << >> THEN << >>
    ELSE IF Find(t, "\n") = 0 THEN << t >>
    ELSE << SubSeq(t, 1, Find(t, "\n")) >>
         \o file_lines(SubSeq(t, Find(t, "\n") + 1, Len(t)))

(***************************************************************************)
(* The log directory: runs append their results, analyze_logs counts them. *)
(***************************************************************************)
\* The hosts a host source can deliver: non-empty texts without blanks at
\* their ends (both readers strip them); nothing else is checked, so a host
\* can have a tab inside (a host file line `a<TAB>a`).
HostTexts ==
    { t \in SeqsUpTo({"a", "\t"}, MaxLen) :
        t # << >> /\ t[1] # "\t" /\ t[Len(t)] # "\t" }

\* The results of ping_host for these hosts.
LogResults ==
    { ping_host(h, o) : h \in HostTexts,
                        o \in PrimReturns \cup {"expired", "raised"} }

\* setup_logging names the files after the second the run starts in; two
\* runs that start in the same second have the same files.
LogStamps == {1, 2}

\* log_result: the file it chooses ...
log_file(stamp, success) ==
    << stamp, IF success THEN "successful" ELSE "failed" >>

\* ... and the text f"{ip_address}\t{status}\t{response_info}\n" it writes.
record_text(r) ==
    r.ip \o << "\t", IF r.success THEN "SUCCESS" ELSE "FAILED", "\t", r.info, "\n" >>

\* open(name, 'a') and one write: the file is created if it is missing and
\* the text is added at its end.
append_to_file(dir, name, text) ==
    [n \in (DOMAIN dir) \cup {name} |->
        (IF n \in DOMAIN dir THEN dir[n] ELSE << >>)
        \o (IF n = name THEN text ELSE << >>)]

\* parse_log_files: the test a line has to pass to be counted, and the key
\* it is counted under.
line_parts(line) == split(strip(line), "\t")

line_counted(line) == strip(line) # << >> /\ Len(line_parts(line)) >= 2

line_ip(line) == line_parts(line)[1]

\* The counted lines of the files of one kind, as (file, line number) pairs.
CountedLines(dir, kind) ==
    { x \in UNION { { << n, i >> : i \in 1..Len(file_lines(dir[n])) } :
                    n \in DOMAIN dir } :
        /\ x[1][2] = kind
        /\ line_counted(file_lines(dir[x[1]])[x[2]]) }

\* One of the two dicts parse_log_files returns.
parse_log_kind(dir, kind) ==
    LET cl == CountedLines(dir, kind)
        ipOf(x) == line_ip(file_lines(dir[x[1]])[x[2]])
    IN  [ip \in { ipOf(x) : x \in cl } |->
            Cardinality({ x \in cl : ipOf(x) = ip })]

parse_log_files(dir) ==
    << parse_log_kind(dir, "successful"), parse_log_kind(dir, "failed") >>

\* A run starts: setup_logging reads the clock.
SetupLogging(t) ==
    /\ log_stamp = 0
    /\ parsed = << >>
    /\ Len(logged) < MaxFileLines
    /\ t \in LogStamps
    /\ \A n \in DOMAIN log_dir : n[1] <= t
    /\ log_stamp' = t
    /\ UNCHANGED << log_dir, logged, parsed >>
    /\ UNCHANGED << runVars, classVars, schedVars, count, jobrunVars,
                    readerVars, dbVars, daemonVars, cronVars, sinkVars, report,
                    sigVars >>

\* The run logs one result.
AppendResult(r) ==
    /\ log_stamp # 0
    /\ Len(logged) < MaxFileLines
    /\ log_dir' = append_to_file(log_dir, log_file(log_stamp, r.success),
                                 record_text(r))
    /\ logged' = Append(logged, r)
    /\ UNCHANGED << log_stamp, parsed >>
    /\ UNCHANGED << runVars, classVars, schedVars, count, jobrunVars,
                    readerVars, dbVars, daemonVars, cronVars, sinkVars, report,
                    sigVars >>

\* The run is over.
EndLogRun ==
    /\ log_stamp # 0
    /\ log_stamp' = 0
    /\ UNCHANGED << log_dir, logged, parsed >>
    /\ UNCHANGED << runVars, classVars, schedVars, count, jobrunVars,
                    readerVars, dbVars, daemonVars, cronVars, sinkVars, report,
                    sigVars >>

\* analyze_logs reads the directory.
ParseLogFiles ==
    /\ log_stamp = 0
    /\ parsed = << >>
    /\ parsed' = << parse_log_files(log_dir) >>
    /\ UNCHANGED << log_dir, log_stamp, logged >>
    /\ UNCHANGED << runVars, classVars, schedVars, count, jobrunVars,
                    readerVars, dbVars, daemonVars, cronVars, sinkVars, report,
                    sigVars >>

InitLogDir ==
    /\ LogDirIdle
    /\ ReaderIdle
    /\ DbIdle
    /\ JobRunIdle
    /\ RunIdle
    /\ ClassIdle
    /\ SchedIdle
    /\ ParamIdle
    /\ DaemonIdle
    /\ CronIdle
    /\ SinkIdle
    /\ report = << >>
    /\ SigIdle

NextLogDir ==
    \/ \E t \in LogStamps : SetupLogging(t)
    \/ \E r \in LogResults : AppendResult(r)
    \/ EndLogRun
    \/ ParseLogFiles

SpecLogDir == InitLogDir /\ [][NextLogDir]_vars

\* The text a step added to a file (the file's text before the step is the
\* beginning of its text after it).
Added(n) ==
    SubSeq(log_dir'[n],
           (IF n \in DOMAIN log_dir THEN Len(log_dir[n]) ELSE 0) + 1,
           Len(log_dir'[n]))

ChangedFiles ==
    { n \in DOMAIN log_dir' : n \notin DOMAIN log_dir \/ log_dir'[n] # log_dir[n] }

\* C26: a step that logs a result changes exactly one file, the success log
\* of the run iff the result is reachable and its failure log otherwise; the
\* text added is one line, and the line has exactly three tab-separated
\* fields: the host, SUCCESS iff the result is reachable and FAILED
\* otherwise, and the detail.
C26_FlatFileRecord ==
    [][logged' # logged =>
        LET r == logged'[Len(logged')]
        IN  /\ ChangedFiles =
                 {<< log_stamp, IF r.success THEN "successful" ELSE "failed" >>}
            /\ \A n \in ChangedFiles :
                 /\ Len(file_lines(Added(n))) = 1
                 /\ Added(n)[Len(Added(n))] = "\n"
                 /\ split(SubSeq(Added(n), 1, Len(Added(n)) - 1), "\t")
                      = << r.ip,
                           << IF r.success THEN "SUCCESS" ELSE "FAILED" >>,
                           << r.info >> >>]_vars

\* The rule for the hosts without a tab.
C26_RecordOfPlainHost ==
    [][(logged' # logged /\ "\t" \notin Range(logged'[Len(logged')].ip)) =>
        LET r == logged'[Len(logged')]
        IN  /\ ChangedFiles =
                 {<< log_stamp, IF r.success THEN "successful" ELSE "failed" >>}
            /\ \A n \in ChangedFiles :
                 /\ Len(file_lines(Added(n))) = 1
                 /\ split(SubSeq(Added(n), 1, Len(Added(n)) - 1), "\t")
                      = << r.ip,
                           << IF r.success THEN "SUCCESS" ELSE "FAILED" >>,
                           << r.info >> >>]_vars

\* The number of logged results of host h that are reachable (ok = TRUE) or
\* unreachable (ok = FALSE).
LoggedCount(h, ok) ==
    Cardinality({ i \in 1..Len(logged) : logged[i].ip = h /\ logged[i].success = ok })

\* C30: the counts parse_log_files returns for a host are the numbers of
\* reachable and of unreachable results that were logged for it, over all
\* the runs that wrote to the directory.
C30_TallyRoundTrip ==
    parsed # << >> =>
        \A h \in HostTexts :
            /\ dict_get(parsed[1][1], h) = LoggedCount(h, TRUE)
            /\ dict_get(parsed[1][2], h) = LoggedCount(h, FALSE)

\* The round trip for the directories whose hosts have no tab.
C30_TallyOfPlainHosts ==
    (parsed # << >> /\ \A i \in 1..Len(logged) : "\t" \notin Range(logged[i].ip)) =>
        /\ \A h \in HostTexts :
            /\ dict_get(parsed[1][1], h) = LoggedCount(h, TRUE)
            /\ dict_get(parsed[1][2], h) = LoggedCount(h, FALSE)
        /\ (DOMAIN parsed[1][1]) \cup (DOMAIN parsed[1][2]) \subseteq HostTexts

(***************************************************************************)
(* read_ip_list on the text of the host file.                              *)
(***************************************************************************)
MaxText == 5

FileChars == {"a", " ", "#", "\n"}

\* A substitution that empties the lines beginning with `#` only.
re_sub_comment_lines_only(line) ==
    IF line # << >> /\ line[1] = "#"
    THEN (IF line[Len(line)] = "\n" THEN << "\n" >> ELSE << >>)
    ELSE line

\* re.sub(r'#.*$', '', line) for a line as the file iteration yields it (a
\* line end, if any, is its last character): `.` matches no line end and `$`
\* matches at the end of the line or before its line end, so the match runs
\* from the first `#` up to the line end, which stays.
re_sub_comment(line) ==
    IF Find(line, "#") = 0 THEN line
    ELSE SubSeq(line, 1, Find(line, "#") - 1)
         \o (IF line[Len(line)] = "\n" THEN << "\n" >> ELSE << >>)

\* The set `ips` when the loop over the lines has ended.
read_ip_list_ips(text) ==
    { strip(re_sub_comment(file_lines(text)[i])) : i \in 1..Len(file_lines(text)) }
    \ { << >> }

\* list(ips): the elements of the set, each once, in some order.
list_of_set(S) ==
    { l \in [1..Cardinality(S) -> S] : Range(l) = S }

\* read_ip_list reads the file and returns.
ReadIpList ==
    /\ ips_read = << >>
    /\ \E l \in list_of_set(read_ip_list_ips(file_text)) : ips_read' = << l >>
    /\ UNCHANGED file_text
    /\ UNCHANGED << runVars, classVars, schedVars, count, jobrunVars,
                    logdirVars, dbVars, daemonVars, cronVars, sinkVars, report,
                    sigVars >>

InitReader ==
    /\ file_text \in SeqsUpTo(FileChars, MaxText)
    /\ ips_read = << >>
    /\ LogDirIdle
    /\ DbIdle
    /\ JobRunIdle
    /\ RunIdle
    /\ ClassIdle
    /\ SchedIdle
    /\ ParamIdle
    /\ DaemonIdle
    /\ CronIdle
    /\ SinkIdle
    /\ report = << >>
    /\ SigIdle

NextReader == ReadIpList

SpecReader == InitReader /\ [][NextReader]_vars

\* The positions at which the lines of a text begin and end (the line end
\* excluded).
LineSpans(t) ==
    { << i, j >> \in (1..(Len(t) + 1)) \X (0..Len(t)) :
        /\ i = 1 \/ t[i - 1] = "\n"
        /\ i <= Len(t)
        /\ j >= i - 1
        /\ \A k \in i..j : t[k] # "\n"
        /\ j = Len(t) \/ t[j + 1] = "\n" }

\* What is left of the line from i to j when everything from its first `#`
\* on is removed and the blanks at both ends are dropped: the text between
\* its first and its last character that is not a blank, before the `#`.
CleanedLine(t, i, j) ==
    LET e == IF \E k \in i..j : t[k] = "#"
             THEN (CHOOSE k \in i..j : t[k] = "#" /\ \A m \in i..(k - 1) : t[m] # "#") - 1
             ELSE j
        solid == { k \in i..e : t[k] \notin Whitespace }
    IN  IF solid = {} THEN << >>
        ELSE SubSeq(t, CHOOSE k \in solid : \A m \in solid : k <= m,
                       CHOOSE k \in solid : \A m \in solid : k >= m)

\* C27: the list read_ip_list returns holds exactly the non-empty texts
\* obtained from the lines of the file by removing everything from the
\* first `#` on and trimming the blanks, each of them once.
C27_FileHostReader ==
    ips_read # << >> =>
        /\ Range(ips_read[1]) =
             { CleanedLine(file_text, x[1], x[2]) : x \in LineSpans(file_text) }
             \ { << >> }
        /\ \A i, k \in 1..Len(ips_read[1]) :
             ips_read[1][i] = ips_read[1][k] => i = k

\* A file with a comment line, the same host on two lines (once with a
\* blank before it), read into a list of one host.
C27_Witness ==
    /\ ips_read = << << << "a" >> >> >>
    /\ Len(file_lines(file_text)) >= 2
    /\ \E i \in 2..Len(file_text) : file_text[i] = "a" /\ file_text[i - 1] = " "
    /\ Cardinality({ i \in 1..Len(file_text) : file_text[i] = "a" }) = 2

(***************************************************************************)
(* The one-shot run whose hosts come from the database source.             *)
(***************************************************************************)
MaxRows == 2

\* A cell of a result row: NULL or a text.
Null == [null |-> TRUE, text |-> << >>]

Text(t) == [null |-> FALSE, text |-> t]

\* The first column holds NULL, an empty or blank text, or a host (also with
\* a blank before it); the second column, if the query has one, NULL or a
\* label (also with a blank after it).
HostCells == {Null} \cup { Text(t) : t \in {<< >>, << " " >>, << "a" >>, << " ", "a" >>, << "b" >>} }

LabelCells == {Null} \cup { Text(t) : t \in {<< "x" >>, << "y", " " >>} }

\* The results of a query: all its rows have its number of columns.
RowSeqs ==
    SeqsUpTo({ << h >> : h \in HostCells }, MaxRows)
    \cup SeqsUpTo({ << h, l >> : h \in HostCells, l \in LabelCells }, MaxRows)

\* str(value): the text of None is `None`.
str(cell) == IF cell.null THEN << "N", "o", "n", "e" >> ELSE cell.text

\* An element of a host list: a string (label <<>>, tuple FALSE) or a tuple
\* (ip, label) whose label is None (<<>>) or a text (<<text>>).
StrEntry(ip) == [ip |-> ip, label |-> << >>, tuple |-> FALSE]

TupleEntry(ip, label) == [ip |-> ip, label |-> label, tuple |-> TRUE]

\* The loop of get_ips_from_database over the fetched rows: ip_data.
RECURSIVE ip_data_of_rows(_)
ip_data_of_rows(rs) ==
    IF rs = << >> THEN << >>
    ELSE LET before == ip_data_of_rows(SubSeq(rs, 1, Len(rs) - 1))
             row == rs[Len(rs)]
             ip == strip(str(row[1]))
             label == IF Len(row) > 1 /\ ~row[2].null
                      THEN << strip(str(row[2])) >>
                      ELSE << >>
         IN  IF Len(row) > 0 /\ ip # << >> /\ ip \notin { e.ip : e \in Range(before) }
             THEN Append(before, TupleEntry(ip, label))
             ELSE before

\* get_ips_from_database: None when the source is not usable or the query
\* fails, `ip_data if ip_data else None` otherwise.
get_ips_from_database(usable, rs) ==
    IF usable /\ ip_data_of_rows(rs) # << >>
    THEN [none |-> FALSE, list |-> ip_data_of_rows(rs)]
    ELSE [none |-> TRUE, list |-> << >>]

\* The host lists of the ip file the run falls back to (<<>>: no file given,
\* file missing or without hosts).
FallbackLists == { << >>, << StrEntry(<< "a" >>) >>, << StrEntry(<< "a" >>), StrEntry(<< "b" >>) >> }

\* What the ping primitive can do with the argument: subprocess.run raises
\* TypeError for a command list that holds a tuple.
prim_outcomes(e) ==
    IF e.tuple THEN {"raised"} ELSE PrimReturns \cup {"expired", "raised"}

\* main's print of a result line formats the host with `:<15`, which raises
\* TypeError for a tuple.
print_raises(r) == r.ip.tuple

\* main calls get_ip_list, which queries the database source.
QueryDatabase(usable) ==
    /\ db_pc = "start"
    /\ ip_data' = get_ips_from_database(usable, rows)
    /\ db_pc' = IF usable THEN "queried" ELSE "query_failed"
    /\ UNCHANGED << rows, db_list, db_results >>
    /\ UNCHANGED << runVars, classVars, schedVars, count, jobrunVars,
                    logdirVars, readerVars, daemonVars, cronVars, sinkVars, report,
                    sigVars >>

\* get_ip_list returns the database's list as it is, or falls back to the
\* ip file (and exits when that gives no host).
GetIpList(fallback) ==
    /\ db_pc \in {"queried", "query_failed"}
    /\ IF ~ip_data.none
       THEN /\ db_list' = ip_data.list
            /\ db_pc' = "probing"
       ELSE /\ db_list' = fallback
            /\ db_pc' = IF fallback = << >> THEN "exited" ELSE "probing"
    /\ UNCHANGED << rows, ip_data, db_results >>
    /\ UNCHANGED << runVars, classVars, schedVars, count, jobrunVars,
                    logdirVars, readerVars, daemonVars, cronVars, sinkVars, report,
                    sigVars >>

\* The probe of one element of the list is done and main's loop handles its
\* result: all_results.append, log_result, the print.
HandleResult(i, o) ==
    /\ db_pc = "probing"
    /\ i \in 1..Len(db_list)
    /\ db_list[i] \notin { r.ip : r \in Range(db_results) }
    /\ o \in prim_outcomes(db_list[i])
    /\ db_results' = Append(db_results, ping_host(db_list[i], o))
    /\ db_pc' = IF print_raises(ping_host(db_list[i], o)) THEN "crashed" ELSE "probing"
    /\ UNCHANGED << rows, ip_data, db_list >>
    /\ UNCHANGED << runVars, classVars, schedVars, count, jobrunVars,
                    logdirVars, readerVars, daemonVars, cronVars, sinkVars, report,
                    sigVars >>

\* Every result is handled: the loop ends.
LoopEnds ==
    /\ db_pc = "probing"
    /\ Len(db_results) = Len(db_list)
    /\ db_pc' = "done"
    /\ UNCHANGED << rows, ip_data, db_list, db_results >>
    /\ UNCHANGED << runVars, classVars, schedVars, count, jobrunVars,
                    logdirVars, readerVars, daemonVars, cronVars, sinkVars, report,
                    sigVars >>

InitDbRun ==
    /\ rows \in RowSeqs
    /\ ip_data = [none |-> TRUE, list |-> << >>]
    /\ db_pc = "start"
    /\ db_list = << >>
    /\ db_results = << >>
    /\ LogDirIdle
    /\ ReaderIdle
    /\ JobRunIdle
    /\ RunIdle
    /\ ClassIdle
    /\ SchedIdle
    /\ ParamIdle
    /\ DaemonIdle
    /\ CronIdle
    /\ SinkIdle
    /\ report = << >>
    /\ SigIdle

NextDbRun ==
    \/ \E usable \in BOOLEAN : QueryDatabase(usable)
    \/ \E fallback \in FallbackLists : GetIpList(fallback)
    \/ \E i \in 1..Len(db_list), o \in PrimReturns \cup {"expired", "raised"} :
          HandleResult(i, o)
    \/ LoopEnds

SpecDbRun == InitDbRun /\ [][NextDbRun]_vars

\* The query has been executed and get_ips_from_database has returned.
Queried == db_pc = "queried"

\* The rows whose first column holds a text that is not empty when trimmed,
\* and the first of them for a host.
HostRows == { k \in 1..Len(rows) : ~rows[k][1].null /\ strip(rows[k][1].text) # << >> }

FirstRowOf(h) ==
    CHOOSE k \in HostRows :
        /\ strip(rows[k][1].text) = h
        /\ \A m \in HostRows : strip(rows[m][1].text) = h => k <= m

\* The label of a row: None without a second column or with NULL in it,
\* else its text (trimmed).
LabelOfRow(k) ==
    IF Len(rows[k]) > 1 /\ ~rows[k][2].null
    THEN << strip(rows[k][2].text) >>
    ELSE << >>

\* The entries of the returned value (None: no entry).
Entries == ip_data.list

\* C28: get_ips_from_database returns one entry per distinct non-empty
\* trimmed value of the first column, in the order of their first rows, each
\* with the label of its first row (None without second column or with NULL
\* in it).
C28_QueryHostReader ==
    Queried =>
        /\ { Entries[i].ip : i \in 1..Len(Entries) }
             = { strip(rows[k][1].text) : k \in HostRows }
        /\ \A i, k \in 1..Len(Entries) :
             i < k => FirstRowOf(Entries[i].ip) < FirstRowOf(Entries[k].ip)
        /\ \A i \in 1..Len(Entries) :
             Entries[i].label = LabelOfRow(FirstRowOf(Entries[i].ip))

\* The same for the results without NULL in the first column.
C28_ReaderOfNonNullRows ==
    (Queried /\ \A k \in 1..Len(rows) : ~rows[k][1].null) =>
        /\ { Entries[i].ip : i \in 1..Len(Entries) }
             = { strip(rows[k][1].text) : k \in HostRows }
        /\ \A i, k \in 1..Len(Entries) :
             i < k => FirstRowOf(Entries[i].ip) < FirstRowOf(Entries[k].ip)
        /\ \A i \in 1..Len(Entries) :
             Entries[i].label = LabelOfRow(FirstRowOf(Entries[i].ip))

\* The run's host list is the database's.
FromDatabase == db_pc \in {"probing", "crashed", "done"} /\ ~ip_data.none

\* C29: in a run whose host list comes from the database, every element of
\* the list a probe is invoked with is a host string, that of an entry the
\* query gave; and when the run is over there is one result per such host,
\* keyed by the host string.
C29_DatabaseRunAsFileRun ==
    /\ FromDatabase =>
         \A i \in 1..Len(db_list) :
            /\ ~db_list[i].tuple
            /\ db_list[i].ip \in { e.ip : e \in Range(Entries) }
    /\ (FromDatabase /\ db_pc \in {"crashed", "done"}) =>
         /\ Len(db_results) = Len(Entries)
         /\ { r.ip : r \in Range(db_results) }
              = { StrEntry(e.ip) : e \in Range(Entries) }

\* The run on the list of the ip file: one result per host, keyed by it.
C29_FileRun ==
    (db_pc \in {"crashed", "done"} /\ ip_data.none) =>
        /\ db_pc = "done"
        /\ Len(db_results) = Len(db_list)
        /\ { r.ip : r \in Range(db_results) } = Range(db_list)
        /\ \A i \in 1..Len(db_list) : ~db_list[i].tuple

(***************************************************************************)
(* The counters of a run.                                                  *)
(***************************************************************************)
\* C31: at every point of a run successful + failed is the number of
\* results harvested so far and successful is the number of the reachable
\* ones among them; when the run has completed, successful + failed is the
\* number of hosts submitted.
C31_RunCounters ==
    /\ successful + failed = Cardinality(Harvested)
    /\ successful = Cardinality({ i \in Harvested : future[i][1].success })
    /\ pc = "done" => successful + failed = Len(ip_list)

\* The same for the runs that no exception of log_result has left.
C31_CountersWhileLooping ==
    pc \in {"probing", "done"} =>
        /\ successful + failed = Cardinality(Harvested)
        /\ successful = Cardinality({ i \in Harvested : future[i][1].success })
        /\ pc = "done" => successful + failed = Len(ip_list)

(***************************************************************************)
(* Stop signals.  The handlers are installed in __init__; from then on a   *)
(* SIGINT or SIGTERM runs _signal_handler on the main thread, between two  *)
(* of its instructions, also while an earlier handler or shutdown call is  *)
(* executing.  `frames` holds the shutdown invocations that have not       *)
(* returned: "test" (about to test self.running), "entered" (the test was  *)
(* true; about to log and clear the flag), "wait" (inside                  *)
(* scheduler.shutdown(wait=True)).                                         *)
(***************************************************************************)
MaxSignals == 2

Top == frames[Len(frames)]

WithTop(pos) == [frames EXCEPT ![Len(frames)] = pos]

\* A stop signal is delivered: the handler logs it and calls shutdown.
StopSignal ==
    /\ dpc \in {"loading", "serving", "finally"}
    /\ sigs < MaxSignals
    /\ sigs' = sigs + 1
    /\ frames' = Append(frames, "test")
    /\ lastEvent' = "signal_received"
    /\ UNCHANGED << sched_stops, jobs, instances, running, daemonVars >>
    /\ UNCHANGED << runVars, classVars, count, jobrunVars, logdirVars,
                    readerVars, dbVars, cronVars, sinkVars, report >>

\* shutdown: `if self.running:`; with the flag false the call returns.
ShutdownTest ==
    /\ frames # << >>
    /\ Top = "test"
    /\ frames' = IF self_running THEN WithTop("entered")
                 ELSE SubSeq(frames, 1, Len(frames) - 1)
    /\ UNCHANGED << sigs, sched_stops, schedVars, daemonVars >>
    /\ UNCHANGED << runVars, classVars, count, jobrunVars, logdirVars,
                    readerVars, dbVars, cronVars, sinkVars, report >>

\* shutdown: "Shutting down daemon...", self.running = False, and the call
\* of scheduler.shutdown(wait=True).
ShutdownEnter ==
    /\ frames # << >>
    /\ Top = "entered"
    /\ self_running' = FALSE
    /\ lastEvent' = "shutting_down"
    /\ frames' = WithTop("wait")
    /\ UNCHANGED << sigs, sched_stops, jobs, instances, running, config,
                    next_section, job_count, skipped, dpc, daemon_exit,
                    last_run >>
    /\ UNCHANGED << runVars, classVars, count, jobrunVars, logdirVars,
                    readerVars, dbVars, cronVars, sinkVars, report >>

\* scheduler.shutdown returns: "Daemon stopped", sys.exit(0).  SystemExit
\* leaves every handler and scheduler.start(); the finally clause of start
\* calls shutdown.
ShutdownWaitReturns ==
    /\ frames # << >>
    /\ Top = "wait"
    /\ shutdown_wait_over
    /\ sched_stops' = sched_stops + 1
    /\ lastEvent' = "stopped"
    /\ dpc' = "finally"
    /\ frames' = << "test" >>
    /\ UNCHANGED << sigs, jobs, instances, running, config, next_section,
                    job_count, skipped, self_running, daemon_exit, last_run >>
    /\ UNCHANGED << runVars, classVars, count, jobrunVars, logdirVars,
                    readerVars, dbVars, cronVars, sinkVars, report >>

\* The finally clause is done: the process exits with the code of sys.exit.
ProcessExits ==
    /\ dpc = "finally"
    /\ frames = << >>
    /\ dpc' = "exited"
    /\ daemon_exit' = << 0 >>
    /\ UNCHANGED << sigVars, schedVars, config, next_section, job_count,
                    skipped, self_running, last_run >>
    /\ UNCHANGED << runVars, classVars, count, jobrunVars, logdirVars,
                    readerVars, dbVars, cronVars, sinkVars, report >>

\* The main thread's own steps of start(), taken while no handler runs.
MainThreadStep ==
    /\ frames = << >>
    /\ \/ LoadSection
       \/ NoValidJobs
       \/ StartScheduler
       \/ \E j \in jobs : DaemonTrigger(j)

NextSignals ==
    \/ MainThreadStep
    \/ \E j \in jobs, ending \in RunEndings : JobRunEnds(j, ending)
    \/ StopSignal
    \/ ShutdownTest
    \/ ShutdownEnter
    \/ ShutdownWaitReturns
    \/ ProcessExits

SpecSignals == InitDaemon /\ [][NextSignals]_vars

\* The main thread goes on by itself (a signal waits for its sender), every
\* job's cron time comes again and again, and every run of a job ends.
FairSignals ==
    /\ WF_vars(\/ frames = << >> /\ (LoadSection \/ NoValidJobs \/ StartScheduler)
               \/ ShutdownTest
               \/ ShutdownEnter
               \/ ShutdownWaitReturns
               \/ ProcessExits)
    /\ \A j \in JobIds :
         /\ WF_vars(RunEndsOf(j))
         /\ WF_vars(frames = << >> /\ TriggerOf(j))

FairSpecSignals == SpecSignals /\ FairSignals

\* The process has ended.
Terminated == dpc \in {"exited", "crashed"}

\* C32: after a stop signal was delivered the process eventually ends, also
\* when the signal arrived while the jobs were being loaded.
C32_SignalLeadsToTermination == (sigs > 0) ~> Terminated

\* The same for the signals delivered while the scheduler serves.
C32_SignalWhileServing ==
    (sigs > 0 /\ lastEvent = "signal_received" /\ dpc = "serving" /\ self_running)
        ~> Terminated

\* The invocations of shutdown that found self.running true.
Entered == { k \in 1..Len(frames) : frames[k] # "test" }

\* C33: only one invocation of shutdown, the first one made while running
\* is true, gets past the test of the flag; the scheduler is shut down at
\* most once, by that invocation, and the process then exits with code 0;
\* every invocation that returns at the test changes nothing.
C33_ShutdownAtMostOnce ==
    /\ [](Cardinality(Entered) <= 1)
    /\ [](sched_stops <= 1)
    /\ [](dpc = "exited" /\ sched_stops = 1 => daemon_exit = << 0 >>)
    /\ [][Len(frames') < Len(frames) /\ dpc' = dpc =>
            UNCHANGED << sigs, sched_stops, schedVars, daemonVars >>]_vars

\* What holds of the invocations however the signals arrive: the scheduler
\* is shut down at most once and the process then exits with code 0, and an
\* invocation that finds the flag false changes nothing.
C33_OneSchedulerShutdown ==
    /\ [](sched_stops <= 1)
    /\ [](dpc = "exited" /\ sched_stops = 1 => daemon_exit = << 0 >>)
    /\ [][Len(frames') < Len(frames) /\ dpc' = dpc =>
            UNCHANGED << sigs, sched_stops, schedVars, daemonVars >>]_vars

====
